---- MODULE Spec2Model ----
(***************************************************************************)
(* Kandji -> Cloudflare device sync: the reconciliation pass               *)
(* (Syncer.Sync), the Cloudflare client calls it makes, and main with the  *)
(* loop of Syncer.Run, as a state machine.                                 *)
(*                                                                         *)
(* Specifications:                                                         *)
(*   Spec         a whole pass, step by step                               *)
(*   FilterSpec   the filter loop of the pass over richer devices/policies *)
(*   ApplierSpec  DeleteDevices and AppendDevicesWithDescription alone     *)
(*   LimiterSpec  the rate limiter and the requests of the Cloudflare      *)
(*                client                                                   *)
(*   PagerSpec    the page loop of GetListItems and GetListItemsByID       *)
(*   RunSpec      main from ParseConfig on, and Syncer.Run with its passes *)
(*   RunFairSpec  RunSpec under the scheduling of Go                       *)
(*                                                                         *)
(* Source files (the file names under src/ do not match the Go packages):  *)
(*   src/src/internal/ratelimit/ratelimit.go  packages ratelimit + syncer  *)
(*   src/src/main.go                          packages main + cloudflare   *)
(*   src/src/config/config.go                 package config               *)
(***************************************************************************)
EXTENDS Integers, Sequences, FiniteSets, TLC

\* ------------------------------------------------------------------ bounds

\* Longest device list the directory (Kandji) returns.
MaxDevices == 2

\* Most requests that fail in one pass.
MaxFailures == 1

\* Longest device list the filter loop is run over on its own.
MaxFilterInput == 3

\* Longest argument DeleteDevices and AppendDevicesWithDescription are called with on
\* their own, and the largest batch size.
MaxApplierInput == 4
MaxBatchSize == 3

\* Largest burst capacity of the limiter, and the longest record of acquires and
\* requests kept.
MaxBurst == 2
MaxWire == 3

\* ------------------------------------------------------------------ helpers

SeqToSet(s) == {s[i] : i \in 1..Len(s)}

Min(a, b) == IF a < b THEN a ELSE b

\* All orders in which a Go `range` over a map with key set S may visit it.
Perms(S) ==
    {p \in [1..Cardinality(S) -> S] : \A i, j \in 1..Cardinality(S) : p[i] = p[j] => i = j}

\* Sequences over S of length at most n.
SeqsUpTo(S, n) == UNION {[1..k -> S] : k \in 0..n}

\* A Go map[string]T: a function whose domain is the set of keys stored.
EmptyMap == [k \in {} |-> ""]

\* Reading a Go map[string]string: the zero value "" for a missing key.
MapGetString(m, k) == IF k \in DOMAIN m THEN m[k] ELSE ""

\* Reading a Go map[string][]T: the nil slice for a missing key.
MapGetSlice(m, k) == IF k \in DOMAIN m THEN m[k] ELSE <<>>

MapPut(m, k, v) == [x \in (DOMAIN m) \cup {k} |-> IF x = k THEN v ELSE m[x]]

\* ------------------------------------------------------------------ data

\* kandji.Device, the fields Sync reads.
Device(serial, name, email, platform) ==
    [SerialNumber |-> serial, DeviceName |-> name, UserEmail |-> email,
     Platform |-> platform, Tags |-> <<>>, BlueprintID |-> "bp1", BlueprintName |-> "Std"]

\* The devices the directory may hold.
DeviceUniverse ==
    { Device("A", "nA", "a@x", "Mac"),
      Device("B", "nB", "", "Mac"),
      Device("C", "nC", "c@x", "iPhone"),
      Device("A", "nA2", "a@x", "Mac") }

\* config.BlueprintFilter
NoBlueprints == [BlueprintIDs |-> <<>>, BlueprintNames |-> <<>>]

\* config.KandjiConfig, the filter policy.
KandjiConfigs ==
    { [SyncDevicesWithoutOwners |-> o, SyncMobileDevices |-> o,
       IncludeTags |-> <<>>, ExcludeTags |-> <<>>,
       BlueprintsInclude |-> NoBlueprints, BlueprintsExclude |-> NoBlueprints]
      : o \in BOOLEAN }

\* kandji.Device with its tags and its blueprint.
KandjiDevice(serial, email, platform, tags, blueprintID, blueprintName) ==
    [SerialNumber |-> serial, DeviceName |-> "n", UserEmail |-> email,
     Platform |-> platform, Tags |-> tags, BlueprintID |-> blueprintID,
     BlueprintName |-> blueprintName]

\* Every device the filter loop may meet: serial empty or not, owner empty or not,
\* desktop or mobile, each choice of tags and of blueprint.
FilterDeviceUniverse ==
    { KandjiDevice(s, e, p, tg, bp[1], bp[2]) :
        s \in {"", "A"}, e \in {"", "a@x"}, p \in {"Mac", "iPhone", "iPad"},
        tg \in { <<>>, <<"t1">>, <<"t2">>, <<"t1", "t2">> },
        bp \in { <<"bp1", "Std">>, <<"bp2", "Dev">>, <<"bp1", "Dev">> } }

\* The devices of the longer device lists: owned desktop, unowned desktop, owned
\* iPhone, and a tagged device of another blueprint.
FilterScenarioDevices ==
    { KandjiDevice("A", "a@x", "Mac", <<>>, "bp1", "Std"),
      KandjiDevice("B", "", "Mac", <<>>, "bp1", "Std"),
      KandjiDevice("C", "c@x", "iPhone", <<>>, "bp1", "Std"),
      KandjiDevice("D", "d@x", "Mac", <<"t1">>, "bp1", "Dev") }

\* Every filter policy: the two flags, include and exclude tags, blueprint include
\* and exclude filters by id and by name.
FilterPolicies ==
    { [SyncDevicesWithoutOwners |-> o, SyncMobileDevices |-> m,
       IncludeTags |-> it, ExcludeTags |-> et,
       BlueprintsInclude |-> [BlueprintIDs |-> ii, BlueprintNames |-> inn],
       BlueprintsExclude |-> [BlueprintIDs |-> ei, BlueprintNames |-> en]] :
        o \in BOOLEAN, m \in BOOLEAN,
        it \in { <<>>, <<"t1">> }, et \in { <<>>, <<"t2">> },
        ii \in { <<>>, <<"bp1">> }, inn \in { <<>>, <<"Std">> },
        ei \in { <<>>, <<"bp1">> }, en \in { <<>>, <<"Dev">> } }

\* The device lists the filter loop is run over: every single device, and the lists
\* of scenario devices up to MaxFilterInput.
FilterInputs ==
    { <<d>> : d \in FilterDeviceUniverse } \cup SeqsUpTo(FilterScenarioDevices, MaxFilterInput)

TargetListID == "T"

SourceListIDChoices == { <<>>, <<"L1", "L2">>, <<"L2", "L1">> }

\* config.Config after ParseConfig: validated on_missing, positive batch size.
Configs ==
    { [OnMissing |-> m, Kandji |-> k,
       Cloudflare |-> [ListID |-> TargetListID, SourceListIDs |-> s],
       Batch |-> [Size |-> 2]]
      : m \in {"ignore", "delete", "alert"}, k \in KandjiConfigs, s \in SourceListIDChoices }

\* cloudflare.GatewayList with its items, as the service holds it.
GatewayList(type, description, items) ==
    [Type |-> type, Description |-> description, Items |-> items]

\* The auxiliary (source) lists the service may hold.
ListWorlds ==
    { [l \in {"L1", "L2"} |->
         IF l = "L1" THEN GatewayList("SERIAL", "d1", <<"A", "B">>)
                     ELSE GatewayList("SERIAL", "d2", <<"B">>)],
      [l \in {"L1", "L2"} |->
         IF l = "L1" THEN GatewayList("SERIAL", "", <<"B">>)
                     ELSE GatewayList("DOMAIN", "d2", <<"C">>)] }

TargetType == "SERIAL"

TargetInits == { {}, {"A", "B"} }

\* ------------------------------------------------------------------ state

VARIABLES
    config,                 \* Syncer.config
    directory,              \* the devices Kandji holds
    lists,                  \* the auxiliary Cloudflare lists
    target,                 \* the values of the target Cloudflare list
    pc,                     \* where Sync is: idle, merge, delete, cache, append
    result,                 \* how the last pass ended: none, running, complete, returned
    idx,                    \* index of the source-list loop in progress
    kandjiDevices,
    filteredKandjiDevices,
    mergedSourceSerials,
    sourceListDescriptions,
    targetSerialSet,
    toRemove,
    toAdd,
    sourceListItemsCache,
    cfDevices,
    log,                    \* error, warning and info records of the pass
    summary,                \* "Sync cycle complete" records of the pass
    removeReqs,             \* remove PATCH bodies dispatched in the pass
    appendReqs,             \* append PATCH bodies dispatched in the pass
    failures,               \* how many requests of the pass failed
    prevApplied,            \* the previous pass ran to its end with no failure
    bulkResult,             \* the BulkResult DeleteDevices returned
    deleteCalls,            \* the calls of deleteDeviceBatch: its argument and the answer
    limiter,                \* ratelimit.Limiter: the tokens of its two rate.Limiters
    wire,                   \* acquires and HTTP requests of the Cloudflare client, in order
    rawConfig,              \* the configuration as read, before defaults and validation
    run,                    \* where main and Syncer.Run are, the ticker and the Sync calls
    ctxDone,                \* the context main hands to Run has been cancelled
    pager                   \* a call of GetListItems or GetListItemsByID in progress

vars == <<config, directory, lists, target, pc, result, idx, kandjiDevices,
          filteredKandjiDevices, mergedSourceSerials, sourceListDescriptions,
          targetSerialSet, toRemove, toAdd, sourceListItemsCache, cfDevices,
          log, summary, removeReqs, appendReqs, failures, prevApplied,
          bulkResult, deleteCalls, limiter, wire, rawConfig, run, ctxDone, pager>>

\* The state of the Cloudflare client and of the limiter that a pass does not read.
clientVars == <<bulkResult, deleteCalls, limiter, wire, pager>>

\* A call of GetListItems or GetListItemsByID: the method, the items the service
\* holds, perPage, the page to ask for next, the pages asked for, allItems, and how
\* the call stands (running, ok, err) with the slice it returned.
PagerState(method, items, perPage, page, pages, allItems, state, returned) ==
    [method |-> method, items |-> items, perPage |-> perPage, page |-> page,
     pages |-> pages, allItems |-> allItems, state |-> state, returned |-> returned]

\* No call of the two methods is followed page by page.
NoPager == PagerState("none", <<>>, 1, 1, <<>>, <<>>, "none", <<>>)

\* The state of main and of Syncer.Run, which the steps of a pass do not write.
orchVars == <<rawConfig, run, ctxDone>>

\* The state of Run: at (where main and Run are), ticker (the ticks waiting in
\* ticker.C), during (the waiting tick fired while Sync was running), active (the
\* calls of Sync that have not returned).
RunState(at, ticker, during, active) ==
    [at |-> at, ticker |-> ticker, during |-> during, active |-> active]

\* Run is not part of the specification: Sync, or a part of it, is driven directly.
NoRun == RunState("none", 0, FALSE, 0)

LogRec(msg, serials) == [msg |-> msg, serials |-> serials]

\* ------------------------------------------------------------------ syncer: pure parts

\* createSet: the set of the strings of a slice.
createSet(items) == SeqToSet(items)

\* deviceHasAnyTag: some tag of the device equals some tag of the list.
deviceHasAnyTag(device, includeTags) ==
    \E i \in 1..Len(device.Tags) : \E j \in 1..Len(includeTags) :
        device.Tags[i] = includeTags[j]

\* Mutant of deviceMatchesBlueprint: the include filter is consulted before the
\* exclude filter.
deviceMatchesBlueprintIncludeFirst(device, k) ==
    LET includeIDs   == createSet(k.BlueprintsInclude.BlueprintIDs)
        includeNames == createSet(k.BlueprintsInclude.BlueprintNames)
        excludeIDs   == createSet(k.BlueprintsExclude.BlueprintIDs)
        excludeNames == createSet(k.BlueprintsExclude.BlueprintNames)
    IN  IF device.BlueprintID \in includeIDs THEN TRUE
        ELSE IF device.BlueprintName \in includeNames THEN TRUE
        ELSE IF device.BlueprintID \in excludeIDs THEN FALSE
        ELSE IF device.BlueprintName \in excludeNames THEN FALSE
        ELSE Cardinality(includeIDs) = 0 /\ Cardinality(includeNames) = 0

\* deviceMatchesBlueprint: exclude by id, exclude by name, no include filter, include
\* by id, include by name, in that order.
deviceMatchesBlueprint(device, k) ==
    LET includeIDs   == createSet(k.BlueprintsInclude.BlueprintIDs)
        includeNames == createSet(k.BlueprintsInclude.BlueprintNames)
        excludeIDs   == createSet(k.BlueprintsExclude.BlueprintIDs)
        excludeNames == createSet(k.BlueprintsExclude.BlueprintNames)
    IN  IF device.BlueprintID \in excludeIDs THEN FALSE
        ELSE IF device.BlueprintName \in excludeNames THEN FALSE
        ELSE IF Cardinality(includeIDs) = 0 /\ Cardinality(includeNames) = 0 THEN TRUE
        ELSE IF device.BlueprintID \in includeIDs THEN TRUE
        ELSE IF device.BlueprintName \in includeNames THEN TRUE
        ELSE FALSE

\* Mutant of IncludeDevice: the exclude-tag test reads the include tags.
IncludeDeviceTagsConfused(device, k) ==
    IF device.SerialNumber = "" THEN FALSE
    ELSE IF ~k.SyncDevicesWithoutOwners /\ device.UserEmail = "" THEN FALSE
    ELSE IF ~k.SyncMobileDevices /\ (device.Platform = "iPhone" \/ device.Platform = "iPad")
        THEN FALSE
    ELSE IF Len(k.IncludeTags) > 0 /\ ~deviceHasAnyTag(device, k.IncludeTags) THEN FALSE
    ELSE IF Len(k.ExcludeTags) > 0 /\ deviceHasAnyTag(device, k.IncludeTags) THEN FALSE
    ELSE IF ~deviceMatchesBlueprint(device, k) THEN FALSE
    ELSE TRUE

\* Mutant of IncludeDevice: the owner test is made whatever the policy says.
IncludeDeviceOwnerAlways(device, k) ==
    IF device.SerialNumber = "" THEN FALSE
    ELSE IF device.UserEmail = "" THEN FALSE
    ELSE IF ~k.SyncMobileDevices /\ (device.Platform = "iPhone" \/ device.Platform = "iPad")
        THEN FALSE
    ELSE IF Len(k.IncludeTags) > 0 /\ ~deviceHasAnyTag(device, k.IncludeTags) THEN FALSE
    ELSE IF Len(k.ExcludeTags) > 0 /\ deviceHasAnyTag(device, k.ExcludeTags) THEN FALSE
    ELSE IF ~deviceMatchesBlueprint(device, k) THEN FALSE
    ELSE TRUE

\* The body of Sync's filter loop: TRUE when the device is appended to
\* filteredKandjiDevices, FALSE when an earlier `continue` skips it.
IncludeDevice(device, k) ==
    IF device.SerialNumber = "" THEN FALSE
    ELSE IF ~k.SyncDevicesWithoutOwners /\ device.UserEmail = "" THEN FALSE
    ELSE IF ~k.SyncMobileDevices /\ (device.Platform = "iPhone" \/ device.Platform = "iPad")
        THEN FALSE
    ELSE IF Len(k.IncludeTags) > 0 /\ ~deviceHasAnyTag(device, k.IncludeTags) THEN FALSE
    ELSE IF Len(k.ExcludeTags) > 0 /\ deviceHasAnyTag(device, k.ExcludeTags) THEN FALSE
    ELSE IF ~deviceMatchesBlueprint(device, k) THEN FALSE
    ELSE TRUE

\* filteredKandjiDevices after the filter loop.
FilterDevices(devices, k) == SelectSeq(devices, LAMBDA d : IncludeDevice(d, k))

\* filteredKandjiSerials after the filter loop: declared nil, and the loop appends to
\* filteredKandjiDevices only, so it is still nil whatever the devices are.
FilteredKandjiSerials(devices, k) == <<>>

\* Mutant of RemovalSet: the on_missing test is dropped.
RemovalSetAnyPolicy(onMissing, targetSet, merged) ==
    {serial \in targetSet : serial \notin merged}

\* The serials Sync puts in toRemove (step 4), as a set: Go visits the map
\* targetSerialSet in an unspecified order.
RemovalSet(onMissing, targetSet, merged) ==
    IF onMissing = "delete" THEN {serial \in targetSet : serial \notin merged} ELSE {}

\* Mutant of ToAddDevices: the test against the target snapshot is dropped.
ToAddDevicesUnchecked(devices, targetSet) ==
    [i \in 1..Len(devices) |->
        [SerialNumber |-> devices[i].SerialNumber, Comment |-> devices[i].DeviceName]]

\* toAdd after the loop over filteredKandjiDevices (first part of step 5).
RECURSIVE ToAddDevices(_, _)
ToAddDevices(devices, targetSet) ==
    IF devices = <<>> THEN <<>>
    ELSE LET device == Head(devices)
             rest   == ToAddDevices(Tail(devices), targetSet)
         IN  IF device.SerialNumber \notin targetSet
             THEN <<[SerialNumber |-> device.SerialNumber, Comment |-> device.DeviceName]>> \o rest
             ELSE rest

\* What one source list appends to toAdd: its cached items absent from the target,
\* each with the description recorded for the list.
RECURSIVE ToAddItems(_, _, _)
ToAddItems(items, desc, targetSet) ==
    IF items = <<>> THEN <<>>
    ELSE LET rest == ToAddItems(Tail(items), desc, targetSet)
         IN  IF Head(items) \notin targetSet
             THEN <<[SerialNumber |-> Head(items), Comment |-> desc]>> \o rest
             ELSE rest

\* What the loop over SourceListIDs appends to toAdd (second part of step 5).
RECURSIVE ToAddSourceLists(_, _, _, _)
ToAddSourceLists(ids, cache, descs, targetSet) ==
    IF ids = <<>> THEN <<>>
    ELSE ToAddItems(MapGetSlice(cache, Head(ids)), MapGetString(descs, Head(ids)), targetSet)
         \o ToAddSourceLists(Tail(ids), cache, descs, targetSet)

\* Mutant of AllAdditions: the source lists are enumerated before the devices.
AllAdditionsListsFirst(deviceAdds, ids, cache, descs, targetSet) ==
    ToAddSourceLists(ids, cache, descs, targetSet) \o deviceAdds

\* toAdd when the deduplication starts: the additions of the devices, then those of
\* the source lists.
AllAdditions(deviceAdds, ids, cache, descs, targetSet) ==
    deviceAdds \o ToAddSourceLists(ids, cache, descs, targetSet)

\* deduped: the entries of toAdd whose serial is not in the target snapshot.
Deduped(adds, targetSet) == SelectSeq(adds, LAMBDA d : d.SerialNumber \notin targetSet)

\* intersection: the serials of toAdd found in the target snapshot.
RECURSIVE Intersection(_, _)
Intersection(adds, targetSet) ==
    IF adds = <<>> THEN <<>>
    ELSE (IF Head(adds).SerialNumber \in targetSet THEN <<Head(adds).SerialNumber>> ELSE <<>>)
         \o Intersection(Tail(adds), targetSet)

\* Mutant of SerialSeenLoop: serialSeen is never consulted.
SerialSeenLoopNoSeen(deduped, serialSeen) ==
    [cfDevices |-> [i \in 1..Len(deduped) |->
                      [Value |-> deduped[i].SerialNumber, Comment |-> deduped[i].Comment]],
     duplicates |-> <<>>]

\* The serialSeen loop: cfDevices and duplicates for the entries of deduped, with
\* the serials seen before them.
RECURSIVE SerialSeenLoop(_, _)
SerialSeenLoop(deduped, serialSeen) ==
    IF deduped = <<>> THEN [cfDevices |-> <<>>, duplicates |-> <<>>]
    ELSE LET d == Head(deduped)
         IN  IF d.SerialNumber \in serialSeen
             THEN LET r == SerialSeenLoop(Tail(deduped), serialSeen)
                  IN  [cfDevices |-> r.cfDevices, duplicates |-> <<d.SerialNumber>> \o r.duplicates]
             ELSE LET r == SerialSeenLoop(Tail(deduped), serialSeen \cup {d.SerialNumber})
                  IN  [cfDevices |-> <<[Value |-> d.SerialNumber, Comment |-> d.Comment]>> \o r.cfDevices,
                       duplicates |-> r.duplicates]

\* The append payload Sync builds from toAdd (the defensive deduplication).
CfDevices(adds, targetSet) == SerialSeenLoop(Deduped(adds, targetSet), {}).cfDevices

\* The duplicate serials the deduplication skips.
Duplicates(adds, targetSet) == SerialSeenLoop(Deduped(adds, targetSet), {}).duplicates

\* ------------------------------------------------------------------ cloudflare client

\* The batches DeleteDevices cuts: for i := 0; i < len; i += batchSize, the slice
\* [i:min(i+batchSize, len)].
RECURSIVE BatchesFrom(_, _, _)
BatchesFrom(items, i, batchSize) ==
    IF i >= Len(items) THEN <<>>
    ELSE <<SubSeq(items, i + 1, Min(i + batchSize, Len(items)))>>
         \o BatchesFrom(items, i + batchSize, batchSize)

\* Mutant of Batches: the loop runs while a whole batch is left (i + batchSize <=
\* len), so a shorter last batch is never cut.
BatchesWholeOnly(items, batchSize) ==
    BatchesFrom(SubSeq(items, 1, (Len(items) \div batchSize) * batchSize), 0, batchSize)

Batches(items, batchSize) == BatchesFrom(items, 0, batchSize)

\* BulkResult
EmptyResult == [SuccessCount |-> 0, FailedDevices |-> <<>>, Errors |-> <<>>]

\* deleteDeviceBatch: the BulkResult of one batch, and the remove PATCH it sends (none
\* when every serial of the batch is empty). ok: the service answers 200, success.
deleteDeviceBatch(serialNumbers, ok) ==
    LET removeItems == SelectSeq(serialNumbers, LAMBDA s : s /= "")
        empties     == SelectSeq(serialNumbers, LAMBDA s : s = "")
        failedDevs  == [i \in 1..Len(empties) |->
                          [SerialNumber |-> empties[i], Success |-> FALSE,
                           Error |-> "empty serial number"]]
    IN  IF Len(removeItems) = 0
        THEN [result |-> [SuccessCount |-> 0, FailedDevices |-> failedDevs, Errors |-> <<>>],
              sent |-> <<>>, removed |-> {}]
        ELSE IF ~ok
        THEN [result |-> [SuccessCount |-> 0, FailedDevices |-> failedDevs,
                          Errors |-> <<"PATCH failed">>],
              sent |-> <<removeItems>>, removed |-> {}]
        ELSE [result |-> [SuccessCount |-> Len(removeItems), FailedDevices |-> failedDevs,
                          Errors |-> <<>>],
              sent |-> <<removeItems>>, removed |-> SeqToSet(removeItems)]

\* DeleteDevices: the batches in order, their results accumulated. oks[b]: the
\* service's answer to batch b.
RECURSIVE DeleteBatches(_, _, _)
DeleteBatches(batches, oks, b) ==
    IF b > Len(batches)
    THEN [result |-> EmptyResult, sent |-> <<>>, removed |-> {}, calls |-> <<>>]
    ELSE LET one  == deleteDeviceBatch(batches[b], oks[b])
             rest == DeleteBatches(batches, oks, b + 1)
         IN  [result |->
                [SuccessCount  |-> one.result.SuccessCount + rest.result.SuccessCount,
                 FailedDevices |-> one.result.FailedDevices \o rest.result.FailedDevices,
                 Errors        |-> one.result.Errors \o rest.result.Errors],
              sent |-> one.sent \o rest.sent,
              removed |-> one.removed \cup rest.removed,
              calls |-> <<[serialNumbers |-> batches[b], ok |-> oks[b]]>> \o rest.calls]

\* Mutant of DeleteDevices: the loop ends at the first batch that reports an error.
DeleteDevicesStopOnError(serialNumbers, batchSize, oks) ==
    LET batches == Batches(serialNumbers, batchSize)
        bad     == {b \in 1..Len(batches) :
                      ~oks[b] /\ \E i \in 1..Len(batches[b]) : batches[b][i] /= ""}
        last    == IF bad = {} THEN Len(batches)
                   ELSE CHOOSE b \in bad : \A c \in bad : b <= c
    IN  DeleteBatches(SubSeq(batches, 1, last), oks, 1)

DeleteDevices(serialNumbers, batchSize, oks) ==
    IF Len(serialNumbers) = 0
    THEN [result |-> EmptyResult, sent |-> <<>>, removed |-> {}, calls |-> <<>>]
    ELSE DeleteBatches(Batches(serialNumbers, batchSize), oks, 1)

\* AppendDevicesWithDescription: nothing for no items; otherwise one append PATCH that
\* carries every item and the description, whatever batchSize is. ok: the service
\* answers 200, success.
AppendDevicesWithDescription(items, batchSize, description, ok) ==
    IF Len(items) = 0 THEN [err |-> FALSE, sent |-> <<>>, added |-> {}]
    ELSE [err   |-> ~ok,
          sent  |-> <<items>>,
          added |-> IF ok THEN {items[i].Value : i \in 1..Len(items)} ELSE {}]

\* AppendDevices, which Sync calls and whose source is not among the files of the
\* repository at hand; after section 4.3 of the design: the items cut in batches of
\* batchSize, one append PATCH per batch, a failed batch reported as the call's error
\* while the later batches are still sent.
RECURSIVE AppendBatches(_, _, _)
AppendBatches(batches, oks, b) ==
    IF b > Len(batches) THEN [err |-> FALSE, sent |-> <<>>, added |-> {}]
    ELSE LET rest == AppendBatches(batches, oks, b + 1)
         IN  [err   |-> ~oks[b] \/ rest.err,
              sent  |-> <<batches[b]>> \o rest.sent,
              added |-> (IF oks[b] THEN {batches[b][i].Value : i \in 1..Len(batches[b])}
                         ELSE {}) \cup rest.added]

AppendDevices(items, batchSize, oks) ==
    IF Len(items) = 0 THEN [err |-> FALSE, sent |-> <<>>, added |-> {}]
    ELSE AppendBatches(Batches(items, batchSize), oks, 1)

Count(b) == IF b THEN 1 ELSE 0

\* The outcomes of one request: success, or failure while fewer than MaxFailures
\* requests of the pass have failed.
MayFail(n) == IF n < MaxFailures THEN BOOLEAN ELSE {TRUE}

\* The answers the service may give to n batches when f requests of the pass have
\* failed already.
Answers(n, f) ==
    {oks \in [1..n -> BOOLEAN] : f + Cardinality({b \in 1..n : ~oks[b]}) <= MaxFailures}

\* The outcomes of one request of the Cloudflare client made with the context of the
\* pass: once the context is done, WaitForCloudflare and httpClient.Do return its
\* error.
CtxMayFail(n) == IF ctxDone THEN {FALSE} ELSE MayFail(n)

\* The answers to n batches sent with the context of the pass.
CtxAnswers(n, f) == IF ctxDone THEN {[b \in 1..n |-> FALSE]} ELSE Answers(n, f)

\* ------------------------------------------------------------------ ratelimit

\* A rate.Limiter as a token bucket: the tokens at hand and the burst it holds at most.
Bucket(tokens, burst) == [tokens |-> tokens, burst |-> burst]

\* ratelimit.New: two rate.Limiters, each with the burst capacity of the
\* configuration and a full bucket.
NewLimiter(burst) ==
    [kandjiLimiter |-> Bucket(burst, burst), cloudflareLimiter |-> Bucket(burst, burst)]

\* rate.Limiter.Allow and a rate.Limiter.Wait that returns nil: one token is taken.
Take(bucket) == [bucket EXCEPT !.tokens = @ - 1]

\* The rate.Limiter gains a token as time passes, up to its burst.
Gain(bucket) == [bucket EXCEPT !.tokens = Min(@ + 1, bucket.burst)]

\* An entry of the record of acquires and requests. kind: acquire (a token was
\* taken), denied (Allow returned false), cancelled (Wait returned the context's
\* error), request (an HTTP request was dispatched); pool: kandji or cloudflare, the
\* pool acquired from or the API the request goes to; op: the method.
Event(kind, pool, op) == [kind |-> kind, pool |-> pool, op |-> op]

\* ------------------------------------------------------------------ the pass

SourceListIDs == config.Cloudflare.SourceListIDs

Init ==
    /\ config \in Configs
    /\ directory \in SeqsUpTo(DeviceUniverse, MaxDevices)
    /\ lists \in ListWorlds
    /\ target \in TargetInits
    /\ pc = "idle"
    /\ result = "none"
    /\ idx = 1
    /\ kandjiDevices = <<>>
    /\ filteredKandjiDevices = <<>>
    /\ mergedSourceSerials = {}
    /\ sourceListDescriptions = EmptyMap
    /\ targetSerialSet = {}
    /\ toRemove = <<>>
    /\ toAdd = <<>>
    /\ sourceListItemsCache = EmptyMap
    /\ cfDevices = <<>>
    /\ log = {}
    /\ summary = <<>>
    /\ removeReqs = <<>>
    /\ appendReqs = <<>>
    /\ failures = 0
    /\ prevApplied = FALSE
    /\ bulkResult = EmptyResult
    /\ deleteCalls = <<>>
    /\ rawConfig = config
    /\ run = NoRun
    /\ ctxDone = FALSE
    /\ pager = NoPager
    /\ limiter = NewLimiter(1)
    /\ wire = <<>>

\* Sync, step 1: the devices are fetched and filtered, and the merged set is seeded
\* from filteredKandjiSerials. The locals of the pass start afresh.
GetDevicesAndFilter ==
    /\ UNCHANGED clientVars
    /\ prevApplied' = (result = "complete" /\ failures = 0)
    /\ idx' = 1
    /\ sourceListDescriptions' = EmptyMap
    /\ targetSerialSet' = {}
    /\ toRemove' = <<>>
    /\ toAdd' = <<>>
    /\ sourceListItemsCache' = EmptyMap
    /\ cfDevices' = <<>>
    /\ summary' = <<>>
    /\ removeReqs' = <<>>
    /\ appendReqs' = <<>>
    /\ \E ok \in MayFail(0) :
        IF ok
        THEN /\ kandjiDevices' = directory
             /\ filteredKandjiDevices' = FilterDevices(directory, config.Kandji)
             /\ mergedSourceSerials' = createSet(FilteredKandjiSerials(directory, config.Kandji))
             /\ log' = {}
             /\ failures' = 0
             /\ pc' = "merge"
             /\ result' = "running"
        ELSE /\ kandjiDevices' = <<>>
             /\ filteredKandjiDevices' = <<>>
             /\ mergedSourceSerials' = {}
             /\ log' = {LogRec("Failed to get devices from Kandji", <<>>)}
             /\ failures' = 1
             /\ pc' = "idle"
             /\ result' = "returned"
    /\ UNCHANGED <<config, directory, lists, target>>

\* A pass starts when no pass is running, whatever starts it (Run, at start-up and on
\* a tick).
StartSync ==
    /\ pc = "idle"
    /\ GetDevicesAndFilter
    /\ UNCHANGED orchVars

\* Sync, step 2, one iteration of the loop over SourceListIDs: the type of the source
\* list, the type of the target list, the metadata and the items of the source list.
MergeSourceList ==
    /\ pc = "merge"
    /\ UNCHANGED <<clientVars, orchVars>>
    /\ idx <= Len(SourceListIDs)
    /\ LET sourceListID == SourceListIDs[idx]
           list == lists[sourceListID]
       IN  \E okType, okTargetType, okMeta, okItems \in CtxMayFail(failures) :
            IF ~okType
            THEN /\ log' = log \cup {LogRec("Failed to fetch type for source Cloudflare list",
                                            <<sourceListID>>)}
                 /\ failures' = failures + 1
                 /\ UNCHANGED <<sourceListDescriptions, mergedSourceSerials>>
            ELSE IF ~okTargetType
            THEN /\ log' = log \cup {LogRec("Failed to fetch type for target Cloudflare list",
                                            <<config.Cloudflare.ListID>>)}
                 /\ failures' = failures + 1
                 /\ UNCHANGED <<sourceListDescriptions, mergedSourceSerials>>
            ELSE IF list.Type /= TargetType
            THEN /\ log' = log \cup {LogRec("Source list type does not match target list type",
                                            <<sourceListID>>)}
                 /\ UNCHANGED <<failures, sourceListDescriptions, mergedSourceSerials>>
            ELSE /\ sourceListDescriptions' =
                        IF okMeta /\ list.Description /= ""
                        THEN MapPut(sourceListDescriptions, sourceListID, list.Description)
                        ELSE sourceListDescriptions
                 /\ failures' = failures + Count(~okMeta) + Count(~okItems)
                 /\ failures' <= MaxFailures
                 /\ IF ~okItems
                    THEN /\ log' = log \cup
                                {LogRec("Failed to fetch items from source Cloudflare list",
                                        <<sourceListID>>)}
                         /\ UNCHANGED mergedSourceSerials
                    ELSE /\ mergedSourceSerials' = mergedSourceSerials \cup SeqToSet(list.Items)
                         /\ UNCHANGED log
    /\ idx' = idx + 1
    /\ UNCHANGED <<config, directory, lists, target, pc, result, kandjiDevices,
                   filteredKandjiDevices, targetSerialSet, toRemove, toAdd,
                   sourceListItemsCache, cfDevices, summary, removeReqs, appendReqs,
                   prevApplied>>

\* Sync, step 3 and the head of step 4: the target snapshot, and toRemove collected
\* from it in the order Go happens to visit the map.
FetchTarget ==
    /\ pc = "merge"
    /\ UNCHANGED <<clientVars, orchVars>>
    /\ idx > Len(SourceListIDs)
    /\ \E ok \in CtxMayFail(failures) :
        IF ok
        THEN /\ targetSerialSet' = target
             /\ toRemove' \in Perms(RemovalSet(config.OnMissing, target, mergedSourceSerials))
             /\ pc' = "delete"
             /\ UNCHANGED <<log, failures, result>>
        ELSE /\ log' = log \cup {LogRec("Failed to get devices from Cloudflare target list", <<>>)}
             /\ failures' = failures + 1
             /\ pc' = "idle"
             /\ result' = "returned"
             /\ UNCHANGED <<targetSerialSet, toRemove>>
    /\ UNCHANGED <<config, directory, lists, target, idx, kandjiDevices,
                   filteredKandjiDevices, mergedSourceSerials, sourceListDescriptions,
                   toAdd, sourceListItemsCache, cfDevices, summary, removeReqs,
                   appendReqs, prevApplied>>

\* Mutant of DeleteMissing: a removal batch that failed ends the pass.
DeleteMissingOrReturn ==
    /\ pc = "delete"
    /\ UNCHANGED <<clientVars, orchVars>>
    /\ IF Len(toRemove) > 0 /\ config.Batch.Size <= 0
       THEN /\ pc' = (IF config.Batch.Size < 0 THEN "panic" ELSE "hang")
            /\ UNCHANGED <<target, removeReqs, failures, log, toAdd, idx, result>>
       ELSE \E oks \in CtxAnswers(Len(Batches(toRemove, config.Batch.Size)), failures) :
              LET r == DeleteDevices(toRemove, config.Batch.Size, oks)
              IN  /\ target' = target \ r.removed
                  /\ removeReqs' = r.sent
                  /\ failures' = failures + Len(r.result.Errors)
                  /\ log' = log
                        \cup {LogRec("Failed to delete device",
                                      <<r.result.FailedDevices[i].SerialNumber>>)
                              : i \in 1..Len(r.result.FailedDevices)}
                        \cup {LogRec("Bulk deletion error", <<>>)
                              : i \in 1..Len(r.result.Errors)}
                  /\ IF Len(r.result.Errors) > 0
                     THEN pc' = "idle" /\ result' = "returned" /\ UNCHANGED <<toAdd, idx>>
                     ELSE /\ toAdd' = ToAddDevices(filteredKandjiDevices, targetSerialSet)
                          /\ idx' = 1
                          /\ pc' = "cache"
                          /\ UNCHANGED result
    /\ UNCHANGED <<config, directory, lists, kandjiDevices, filteredKandjiDevices,
                   mergedSourceSerials, sourceListDescriptions, targetSerialSet, toRemove,
                   sourceListItemsCache, cfDevices, summary, appendReqs, prevApplied>>

\* Sync, the rest of step 4 and the first loop of step 5: DeleteDevices over toRemove
\* when it is not empty, then toAdd from the filtered devices. With a batch size that
\* is not positive the loop of DeleteDevices does not do its work: a negative size
\* slices serialNumbers[0:-n], a run-time panic, and a size of zero never advances.
DeleteMissing ==
    /\ pc = "delete"
    /\ UNCHANGED <<clientVars, orchVars>>
    /\ IF Len(toRemove) > 0 /\ config.Batch.Size <= 0
       THEN /\ pc' = (IF config.Batch.Size < 0 THEN "panic" ELSE "hang")
            /\ UNCHANGED <<target, removeReqs, failures, log, toAdd, idx>>
       ELSE /\ IF Len(toRemove) > 0
               THEN \E oks \in CtxAnswers(Len(Batches(toRemove, config.Batch.Size)), failures) :
                      LET r == DeleteDevices(toRemove, config.Batch.Size, oks)
                      IN  /\ target' = target \ r.removed
                          /\ removeReqs' = r.sent
                          /\ failures' = failures + Len(r.result.Errors)
                          /\ log' = log
                                \cup {LogRec("Failed to delete device",
                                              <<r.result.FailedDevices[i].SerialNumber>>)
                                      : i \in 1..Len(r.result.FailedDevices)}
                                \cup {LogRec("Bulk deletion error", <<>>)
                                      : i \in 1..Len(r.result.Errors)}
               ELSE UNCHANGED <<target, removeReqs, failures, log>>
            /\ toAdd' = ToAddDevices(filteredKandjiDevices, targetSerialSet)
            /\ idx' = 1
            /\ pc' = "cache"
    /\ UNCHANGED <<config, directory, lists, result, kandjiDevices, filteredKandjiDevices,
                   mergedSourceSerials, sourceListDescriptions, targetSerialSet, toRemove,
                   sourceListItemsCache, cfDevices, summary, appendReqs, prevApplied>>

\* Sync, step 5, one iteration of the loop that fills sourceListItemsCache: the items
\* of the source list are fetched again, and kept when the fetch succeeds.
CacheSourceList ==
    /\ pc = "cache"
    /\ UNCHANGED <<clientVars, orchVars>>
    /\ idx <= Len(SourceListIDs)
    /\ LET sourceListID == SourceListIDs[idx]
       IN  \E ok \in CtxMayFail(failures) :
            /\ sourceListItemsCache' =
                  IF ok THEN MapPut(sourceListItemsCache, sourceListID, lists[sourceListID].Items)
                  ELSE sourceListItemsCache
            /\ failures' = failures + Count(~ok)
    /\ idx' = idx + 1
    /\ UNCHANGED <<config, directory, lists, target, pc, result, kandjiDevices,
                   filteredKandjiDevices, mergedSourceSerials, sourceListDescriptions,
                   targetSerialSet, toRemove, toAdd, cfDevices, log, summary, removeReqs,
                   appendReqs, prevApplied>>

\* Sync, step 5, the loop that appends the cached items to toAdd, and the defensive
\* deduplication that builds the append payload.
BuildAdditions ==
    /\ pc = "cache"
    /\ UNCHANGED <<clientVars, orchVars>>
    /\ idx > Len(SourceListIDs)
    /\ LET adds == AllAdditions(toAdd, SourceListIDs, sourceListItemsCache,
                                sourceListDescriptions, targetSerialSet)
           intersection == Intersection(adds, targetSerialSet)
           duplicates == Duplicates(adds, targetSerialSet)
           warnings ==
               (IF Len(intersection) > 0
                THEN {LogRec("Deduplication: serials to be appended already exist in target list",
                             intersection)}
                ELSE {})
               \cup
               (IF Len(duplicates) > 0
                THEN {LogRec("Deduplication: duplicate serials skipped in PATCH payload",
                             duplicates)}
                ELSE {})
       IN  /\ toAdd' = adds
           /\ IF Len(adds) > 0 /\ Len(Deduped(adds, targetSerialSet)) = 0
              THEN /\ log' = log \cup warnings
                            \cup {LogRec("No new devices to add after deduplication", <<>>)}
                   /\ cfDevices' = <<>>
                   /\ pc' = "idle"
                   /\ result' = "returned"
              ELSE /\ log' = (IF Len(adds) > 0 THEN log \cup warnings ELSE log)
                   /\ cfDevices' = (IF Len(adds) > 0 THEN CfDevices(adds, targetSerialSet)
                                    ELSE <<>>)
                   /\ pc' = "append"
                   /\ UNCHANGED result
    /\ UNCHANGED <<config, directory, lists, target, idx, kandjiDevices,
                   filteredKandjiDevices, mergedSourceSerials, sourceListDescriptions,
                   targetSerialSet, toRemove, sourceListItemsCache, summary, removeReqs,
                   appendReqs, failures, prevApplied>>

\* The "Sync cycle complete" record.
CycleSummary ==
    [kandji_devices_total |-> Len(kandjiDevices),
     eligible_devices     |-> Len(filteredKandjiDevices),
     new_devices_found    |-> Len(toAdd),
     successfully_added   |-> Len(toAdd),
     deleted_devices      |-> Len(toRemove)]

\* Sync, the end of step 5: AppendDevices over the payload when toAdd is not empty,
\* then the cycle summary; an append error returns before the summary. AppendDevices
\* batches as DeleteDevices does, and a batch size that is not positive has the same
\* effect on it.
AppendAndFinish ==
    /\ pc = "append"
    /\ UNCHANGED <<clientVars, orchVars>>
    /\ IF Len(toAdd) > 0 /\ config.Batch.Size <= 0
       THEN /\ pc' = (IF config.Batch.Size < 0 THEN "panic" ELSE "hang")
            /\ UNCHANGED <<target, appendReqs, log, failures, result, summary>>
       ELSE /\ IF Len(toAdd) > 0
               THEN \E oks \in CtxAnswers(Len(Batches(cfDevices, config.Batch.Size)), failures) :
                      LET r == AppendDevices(cfDevices, config.Batch.Size, oks)
                      IN  /\ target' = target \cup r.added
                          /\ appendReqs' = r.sent
                          /\ IF r.err
                             THEN /\ log' = log \cup {LogRec("Failed to process device batch", <<>>)}
                                  /\ failures' = failures + Cardinality({b \in DOMAIN oks : ~oks[b]})
                                  /\ result' = "returned"
                                  /\ UNCHANGED summary
                             ELSE /\ summary' = <<CycleSummary>>
                                  /\ result' = "complete"
                                  /\ UNCHANGED <<log, failures>>
               ELSE /\ summary' = <<CycleSummary>>
                    /\ result' = "complete"
                    /\ UNCHANGED <<target, appendReqs, log, failures>>
            /\ pc' = "idle"
    /\ UNCHANGED <<config, directory, lists, idx, kandjiDevices, filteredKandjiDevices,
                   mergedSourceSerials, sourceListDescriptions, targetSerialSet, toRemove,
                   toAdd, sourceListItemsCache, cfDevices, removeReqs, prevApplied>>

Next ==
    \/ StartSync
    \/ MergeSourceList
    \/ FetchTarget
    \/ DeleteMissing
    \/ CacheSourceList
    \/ BuildAdditions
    \/ AppendAndFinish

Spec == Init /\ [][Next]_vars

\* ------------------------------------------------------------------ the filter loop on its own

FilterInit ==
    /\ \E k \in FilterPolicies :
          config = [OnMissing |-> "ignore", Kandji |-> k,
                    Cloudflare |-> [ListID |-> TargetListID, SourceListIDs |-> <<>>],
                    Batch |-> [Size |-> 2]]
    /\ kandjiDevices \in FilterInputs
    /\ directory = kandjiDevices
    /\ lists = EmptyMap
    /\ target = {}
    /\ pc = "filter"
    /\ result = "running"
    /\ idx = 1
    /\ filteredKandjiDevices = <<>>
    /\ mergedSourceSerials = {}
    /\ sourceListDescriptions = EmptyMap
    /\ targetSerialSet = {}
    /\ toRemove = <<>>
    /\ toAdd = <<>>
    /\ sourceListItemsCache = EmptyMap
    /\ cfDevices = <<>>
    /\ log = {}
    /\ summary = <<>>
    /\ removeReqs = <<>>
    /\ appendReqs = <<>>
    /\ failures = 0
    /\ prevApplied = FALSE
    /\ bulkResult = EmptyResult
    /\ deleteCalls = <<>>
    /\ rawConfig = config
    /\ run = NoRun
    /\ ctxDone = FALSE
    /\ pager = NoPager
    /\ limiter = NewLimiter(1)
    /\ wire = <<>>

\* One iteration of Sync's filter loop: the device is appended to
\* filteredKandjiDevices unless a `continue` skips it.
FilterStep ==
    /\ pc = "filter"
    /\ idx <= Len(kandjiDevices)
    /\ filteredKandjiDevices' =
          IF IncludeDevice(kandjiDevices[idx], config.Kandji)
          THEN Append(filteredKandjiDevices, kandjiDevices[idx])
          ELSE filteredKandjiDevices
    /\ idx' = idx + 1
    /\ UNCHANGED <<config, directory, lists, target, pc, result, kandjiDevices,
                   mergedSourceSerials, sourceListDescriptions, targetSerialSet, toRemove,
                   toAdd, sourceListItemsCache, cfDevices, log, summary, removeReqs,
                   appendReqs, failures, prevApplied, clientVars, orchVars>>

FilterNext == FilterStep

FilterSpec == FilterInit /\ [][FilterNext]_vars

\* ------------------------------------------------------------------ the appliers on their own

\* Mutant of ClientListID: the client is created with the first source list when there
\* is one.
ClientListIDFirstSource(cfg) ==
    IF Len(cfg.SourceListIDs) > 0 THEN cfg.SourceListIDs[1] ELSE cfg.ListID

\* Client.listID, which NewClient takes from the configuration and which the URL of
\* every PATCH is built with.
ClientListID(cfg) == cfg.ListID

\* The auxiliary lists after a PATCH to the list listID that removes the values of
\* remove, appends those of append and, when description is not empty, sets the
\* description: as they were when listID is the target list.
ListsAfterPatch(listID, remove, append, description) ==
    IF listID \notin DOMAIN lists THEN lists
    ELSE [lists EXCEPT ![listID] =
            GatewayList(@.Type,
                        IF description /= "" /\ Len(append) > 0 THEN description
                        ELSE @.Description,
                        SelectSeq(@.Items, LAMBDA v : v \notin remove) \o append)]

\* The values of the target list after the same PATCH: as they were when listID is
\* not the target list.
TargetAfterPatch(listID, remove, append) ==
    IF listID = TargetListID THEN (target \ remove) \cup SeqToSet(append) ELSE target

\* The identifiers DeleteDevices may be handed: an empty one among them.
ApplierSerials == {"A", "B", ""}

\* The items AppendDevicesWithDescription may be handed: the first n of these.
ApplierItemValues == <<"A", "B", "C", "D", "E", "F">>

ApplierItems(n) == [i \in 1..n |-> [Value |-> ApplierItemValues[i], Comment |-> "c"]]

ApplierInit ==
    /\ \E b \in 1..MaxBatchSize :
          config = [OnMissing |-> "delete", Kandji |-> CHOOSE k \in KandjiConfigs : TRUE,
                    Cloudflare |-> [ListID |-> TargetListID, SourceListIDs |-> <<"L1", "L2">>],
                    Batch |-> [Size |-> b]]
    /\ toRemove \in SeqsUpTo(ApplierSerials, MaxApplierInput)
    /\ \E n \in 0..Min(MaxApplierInput, Len(ApplierItemValues)) : cfDevices = ApplierItems(n)
    /\ directory = <<>>
    /\ lists = [l \in {"L1", "L2"} |->
                  IF l = "L1" THEN GatewayList("SERIAL", "d1", <<"A", "B">>)
                  ELSE GatewayList("SERIAL", "d2", <<"B">>)]
    /\ target = {"A", "B"}
    /\ pc = "remove"
    /\ result = "running"
    /\ idx = 1
    /\ kandjiDevices = <<>>
    /\ filteredKandjiDevices = <<>>
    /\ mergedSourceSerials = {}
    /\ sourceListDescriptions = EmptyMap
    /\ targetSerialSet = {"A", "B"}
    /\ toAdd = <<>>
    /\ sourceListItemsCache = EmptyMap
    /\ log = {}
    /\ summary = <<>>
    /\ removeReqs = <<>>
    /\ appendReqs = <<>>
    /\ failures = 0
    /\ prevApplied = FALSE
    /\ bulkResult = EmptyResult
    /\ deleteCalls = <<>>
    /\ rawConfig = config
    /\ run = NoRun
    /\ ctxDone = FALSE
    /\ pager = NoPager
    /\ limiter = NewLimiter(1)
    /\ wire = <<>>

\* DeleteDevices(ctx, toRemove, batchSize): every batch handed to deleteDeviceBatch,
\* whatever the service answers to each.
ApplyRemovals ==
    /\ pc = "remove"
    /\ \E oks \in [1..Len(Batches(toRemove, config.Batch.Size)) -> BOOLEAN] :
          LET r == DeleteDevices(toRemove, config.Batch.Size, oks)
          IN  /\ bulkResult' = r.result
              /\ deleteCalls' = r.calls
              /\ removeReqs' = r.sent
              /\ target' = TargetAfterPatch(ClientListID(config.Cloudflare), r.removed, <<>>)
              /\ lists' = ListsAfterPatch(ClientListID(config.Cloudflare), r.removed, <<>>, "")
              /\ failures' = Len(r.result.Errors)
    /\ pc' = "add"
    /\ UNCHANGED <<config, directory, result, idx, kandjiDevices,
                   filteredKandjiDevices, mergedSourceSerials, sourceListDescriptions,
                   targetSerialSet, toRemove, toAdd, sourceListItemsCache, cfDevices, log,
                   summary, appendReqs, prevApplied, limiter, wire, pager, orchVars>>

\* AppendDevicesWithDescription(ctx, cfDevices, batchSize, description).
ApplyAdditions ==
    /\ pc = "add"
    /\ \E ok \in BOOLEAN :
          LET r == AppendDevicesWithDescription(cfDevices, config.Batch.Size, "d", ok)
              added == IF r.added = {} THEN <<>>
                       ELSE [i \in 1..Len(cfDevices) |-> cfDevices[i].Value]
          IN  /\ appendReqs' = r.sent
              /\ target' = TargetAfterPatch(ClientListID(config.Cloudflare), {}, added)
              /\ lists' = ListsAfterPatch(ClientListID(config.Cloudflare), {}, added, "d")
              /\ result' = IF r.err THEN "returned" ELSE "complete"
    /\ pc' = "applied"
    /\ UNCHANGED <<config, directory, idx, kandjiDevices, filteredKandjiDevices,
                   mergedSourceSerials, sourceListDescriptions, targetSerialSet, toRemove,
                   toAdd, sourceListItemsCache, cfDevices, log, summary, removeReqs,
                   failures, prevApplied, clientVars, orchVars>>

ApplierNext ==
    \/ ApplyRemovals
    \/ ApplyAdditions

ApplierSpec == ApplierInit /\ [][ApplierNext]_vars

\* ------------------------------------------------------------------ the limiter and the requests of the clients

LimiterInit ==
    /\ \E burst \in 1..MaxBurst : limiter = NewLimiter(burst)
    /\ wire = <<>>
    /\ config = CHOOSE c \in Configs : c.Cloudflare.SourceListIDs = <<>>
    /\ directory = <<>>
    /\ lists = EmptyMap
    /\ target = {}
    /\ pc = "client"
    /\ result = "none"
    /\ idx = 1
    /\ kandjiDevices = <<>>
    /\ filteredKandjiDevices = <<>>
    /\ mergedSourceSerials = {}
    /\ sourceListDescriptions = EmptyMap
    /\ targetSerialSet = {}
    /\ toRemove = <<>>
    /\ toAdd = <<>>
    /\ sourceListItemsCache = EmptyMap
    /\ cfDevices = <<>>
    /\ log = {}
    /\ summary = <<>>
    /\ removeReqs = <<>>
    /\ appendReqs = <<>>
    /\ failures = 0
    /\ prevApplied = FALSE
    /\ bulkResult = EmptyResult
    /\ deleteCalls = <<>>
    /\ rawConfig = config
    /\ run = NoRun
    /\ ctxDone = FALSE
    /\ pager = NoPager

\* What no method of the limiter or request of a client changes.
limiterFrame ==
    <<config, directory, lists, target, pc, result, idx, kandjiDevices,
      filteredKandjiDevices, mergedSourceSerials, sourceListDescriptions, targetSerialSet,
      toRemove, toAdd, sourceListItemsCache, cfDevices, log, summary, removeReqs,
      appendReqs, failures, prevApplied, bulkResult, deleteCalls, rawConfig, run, ctxDone,
      pager>>

\* Time passes: one of the two rate.Limiters gains a token.
Refill ==
    /\ pc = "client"
    /\ \/ /\ limiter.kandjiLimiter.tokens < limiter.kandjiLimiter.burst
          /\ limiter' = [limiter EXCEPT !.kandjiLimiter = Gain(@)]
       \/ /\ limiter.cloudflareLimiter.tokens < limiter.cloudflareLimiter.burst
          /\ limiter' = [limiter EXCEPT !.cloudflareLimiter = Gain(@)]
    /\ UNCHANGED <<wire, limiterFrame>>

\* Mutant of WaitForKandji: the wait is made on cloudflareLimiter.
WaitForKandjiOnCloudflare ==
    /\ pc = "client"
    /\ Len(wire) < MaxWire
    /\ \E cancelled \in BOOLEAN :
          IF cancelled
          THEN /\ wire' = Append(wire, Event("cancelled", "kandji", "WaitForKandji"))
               /\ UNCHANGED limiter
          ELSE /\ limiter.cloudflareLimiter.tokens > 0
               /\ limiter' = [limiter EXCEPT !.cloudflareLimiter = Take(@)]
               /\ wire' = Append(wire, Event("acquire", "kandji", "WaitForKandji"))
    /\ UNCHANGED limiterFrame

\* Limiter.WaitForKandji: kandjiLimiter.Wait(ctx) returns the context's error when the
\* context is done, and otherwise returns nil once it has taken a token.
WaitForKandji ==
    /\ pc = "client"
    /\ Len(wire) < MaxWire
    /\ \E cancelled \in BOOLEAN :
          IF cancelled
          THEN /\ wire' = Append(wire, Event("cancelled", "kandji", "WaitForKandji"))
               /\ UNCHANGED limiter
          ELSE /\ limiter.kandjiLimiter.tokens > 0
               /\ limiter' = [limiter EXCEPT !.kandjiLimiter = Take(@)]
               /\ wire' = Append(wire, Event("acquire", "kandji", "WaitForKandji"))
    /\ UNCHANGED limiterFrame

\* Limiter.WaitForCloudflare: the same on cloudflareLimiter.
WaitForCloudflare ==
    /\ pc = "client"
    /\ Len(wire) < MaxWire
    /\ \E cancelled \in BOOLEAN :
          IF cancelled
          THEN /\ wire' = Append(wire, Event("cancelled", "cloudflare", "WaitForCloudflare"))
               /\ UNCHANGED limiter
          ELSE /\ limiter.cloudflareLimiter.tokens > 0
               /\ limiter' = [limiter EXCEPT !.cloudflareLimiter = Take(@)]
               /\ wire' = Append(wire, Event("acquire", "cloudflare", "WaitForCloudflare"))
    /\ UNCHANGED limiterFrame

\* Limiter.AllowKandji: kandjiLimiter.Allow() takes a token and returns true when
\* there is one, and returns false otherwise.
AllowKandji ==
    /\ pc = "client"
    /\ Len(wire) < MaxWire
    /\ IF limiter.kandjiLimiter.tokens > 0
       THEN /\ limiter' = [limiter EXCEPT !.kandjiLimiter = Take(@)]
            /\ wire' = Append(wire, Event("acquire", "kandji", "AllowKandji"))
       ELSE /\ wire' = Append(wire, Event("denied", "kandji", "AllowKandji"))
            /\ UNCHANGED limiter
    /\ UNCHANGED limiterFrame

\* Limiter.AllowCloudflare: the same on cloudflareLimiter.
AllowCloudflare ==
    /\ pc = "client"
    /\ Len(wire) < MaxWire
    /\ IF limiter.cloudflareLimiter.tokens > 0
       THEN /\ limiter' = [limiter EXCEPT !.cloudflareLimiter = Take(@)]
            /\ wire' = Append(wire, Event("acquire", "cloudflare", "AllowCloudflare"))
       ELSE /\ wire' = Append(wire, Event("denied", "cloudflare", "AllowCloudflare"))
            /\ UNCHANGED limiter
    /\ UNCHANGED limiterFrame

\* Mutant of makeRequest: the error of WaitForCloudflare is ignored and the request
\* is dispatched all the same.
makeRequestIgnoringError(op) ==
    /\ pc = "client"
    /\ Len(wire) + 2 <= MaxWire
    /\ \E cancelled \in BOOLEAN :
          IF cancelled
          THEN /\ wire' = wire \o <<Event("cancelled", "cloudflare", op),
                                      Event("request", "cloudflare", op)>>
               /\ UNCHANGED limiter
          ELSE /\ limiter.cloudflareLimiter.tokens > 0
               /\ limiter' = [limiter EXCEPT !.cloudflareLimiter = Take(@)]
               /\ wire' = wire \o <<Event("acquire", "cloudflare", op),
                                      Event("request", "cloudflare", op)>>
    /\ UNCHANGED limiterFrame

\* Client.makeRequest called by op: WaitForCloudflare, an error returned when it
\* fails, and otherwise the request dispatched.
makeRequest(op) ==
    /\ pc = "client"
    /\ Len(wire) + 2 <= MaxWire
    /\ \E cancelled \in BOOLEAN :
          IF cancelled
          THEN /\ wire' = Append(wire, Event("cancelled", "cloudflare", op))
               /\ UNCHANGED limiter
          ELSE /\ limiter.cloudflareLimiter.tokens > 0
               /\ limiter' = [limiter EXCEPT !.cloudflareLimiter = Take(@)]
               /\ wire' = wire \o <<Event("acquire", "cloudflare", op),
                                      Event("request", "cloudflare", op)>>
    /\ UNCHANGED limiterFrame

\* A method of the Cloudflare client that builds its request and hands it to
\* httpClient.Do itself: the limiter is not consulted.
DirectRequest(op) ==
    /\ pc = "client"
    /\ Len(wire) < MaxWire
    /\ wire' = Append(wire, Event("request", "cloudflare", op))
    /\ UNCHANGED <<limiter, limiterFrame>>

\* The requests of the Cloudflare client, one action per method and request (per
\* page for the methods that paginate).
CallValidateListExistsByID == makeRequest("ValidateListExistsByID")
CallGetListItems == makeRequest("GetListItems")
CallGetListTypeByID == DirectRequest("GetListTypeByID")
CallGetListMetadataByID == DirectRequest("GetListMetadataByID")
CallGetListItemsByID == DirectRequest("GetListItemsByID")
CallAppendDevicesWithDescription == DirectRequest("AppendDevicesWithDescription")
CallDeleteDeviceBatch == DirectRequest("deleteDeviceBatch")

LimiterNext ==
    \/ Refill
    \/ WaitForKandji
    \/ WaitForCloudflare
    \/ AllowKandji
    \/ AllowCloudflare
    \/ CallValidateListExistsByID
    \/ CallGetListItems
    \/ CallGetListTypeByID
    \/ CallGetListMetadataByID
    \/ CallGetListItemsByID
    \/ CallAppendDevicesWithDescription
    \/ CallDeleteDeviceBatch

LimiterSpec == LimiterInit /\ [][LimiterNext]_vars

\* ------------------------------------------------------------------ pagination

\* Largest page size a call is followed with (the code asks for 1000 a page), and
\* the most items the service holds in the list asked for.
MaxPerPage == 2
MaxListItems == 5

\* The items of a list as the service holds them: the first n of these.
ServiceItems(n) == [i \in 1..n |-> [Value |-> ApplierItemValues[i], Comment |-> "c"]]

\* The service's answer to /items?page=p&per_page=n: the p-th slice of the list,
\* empty beyond its end.
ServicePage(items, page, perPage) ==
    SubSeq(items, (page - 1) * perPage + 1, Min(page * perPage, Len(items)))

\* A loop that also stops after a full page.
LastPageWhenFull(got, perPage) == Len(got) <= perPage

\* "If we got less than perPage, we're done".
LastPage(got, perPage) == Len(got) < perPage

\* What each method appends to allItems for a page: GetListItems the values,
\* GetListItemsByID the items.
Appended(method, got) ==
    IF method = "GetListItems" THEN [i \in 1..Len(got) |-> got[i].Value] ELSE got

\* What is left of the state while a call is followed page by page.
pagerFrame ==
    <<config, directory, lists, target, pc, result, idx, kandjiDevices,
      filteredKandjiDevices, mergedSourceSerials, sourceListDescriptions, targetSerialSet,
      toRemove, toAdd, sourceListItemsCache, cfDevices, log, summary, removeReqs,
      appendReqs, failures, prevApplied, bulkResult, deleteCalls, limiter, wire, rawConfig,
      run, ctxDone>>

\* A call of either method has just set page := 1 and perPage.
PagerInit ==
    /\ \E method \in {"GetListItems", "GetListItemsByID"},
          n \in 0..Min(MaxListItems, Len(ApplierItemValues)), perPage \in 1..MaxPerPage :
          pager = PagerState(method, ServiceItems(n), perPage, 1, <<>>, <<>>, "running", <<>>)
    /\ limiter = NewLimiter(1)
    /\ wire = <<>>
    /\ config = CHOOSE c \in Configs : c.Cloudflare.SourceListIDs = <<>>
    /\ directory = <<>>
    /\ lists = EmptyMap
    /\ target = {}
    /\ pc = "client"
    /\ result = "none"
    /\ idx = 1
    /\ kandjiDevices = <<>>
    /\ filteredKandjiDevices = <<>>
    /\ mergedSourceSerials = {}
    /\ sourceListDescriptions = EmptyMap
    /\ targetSerialSet = {}
    /\ toRemove = <<>>
    /\ toAdd = <<>>
    /\ sourceListItemsCache = EmptyMap
    /\ cfDevices = <<>>
    /\ log = {}
    /\ summary = <<>>
    /\ removeReqs = <<>>
    /\ appendReqs = <<>>
    /\ failures = 0
    /\ prevApplied = FALSE
    /\ bulkResult = EmptyResult
    /\ deleteCalls = <<>>
    /\ rawConfig = config
    /\ run = NoRun
    /\ ctxDone = FALSE

\* One turn of the loop of either method: ask for the page; a request that fails, a
\* status other than 200, a body that does not decode or success = false returns
\* nil and the error; otherwise append the page and stop after a short one.
PageTurn(method) ==
    /\ pager.method = method
    /\ pager.state = "running"
    /\ \E ok \in BOOLEAN :
          LET got == ServicePage(pager.items, pager.page, pager.perPage)
              all == pager.allItems \o Appended(method, got)
              asked == Append(pager.pages, pager.page)
          IN  pager' =
                  IF ~ok
                  THEN [pager EXCEPT !.pages = asked, !.state = "err", !.returned = <<>>]
                  ELSE IF LastPage(got, pager.perPage)
                  THEN [pager EXCEPT !.pages = asked, !.allItems = all, !.state = "ok",
                                     !.returned = all]
                  ELSE [pager EXCEPT !.pages = asked, !.allItems = all,
                                     !.page = pager.page + 1]
    /\ UNCHANGED pagerFrame

GetListItemsTurn == PageTurn("GetListItems")

GetListItemsByIDTurn == PageTurn("GetListItemsByID")

PagerNext ==
    \/ GetListItemsTurn
    \/ GetListItemsByIDTurn

PagerSpec == PagerInit /\ [][PagerNext]_vars

\* ------------------------------------------------------------------ main and Syncer.Run

\* Largest batch size of a configuration as read.
MaxRawBatchSize == 2

\* The batch size ParseConfig sets when none is configured.
DefaultBatchSize == 50

\* The levels slog.Level.UnmarshalText accepts.
LogLevels == {"debug", "info", "warn", "error"}

\* The filter policy of the configurations main is started with.
RunPolicy == CHOOSE k \in KandjiConfigs : k.SyncDevicesWithoutOwners

\* The configuration as ParseConfig has read it from the file, the environment and
\* the flags, before its defaults: a credential or an identifier may be missing (""),
\* on_missing may be unset or no known value, the target list may be among the source
\* lists, and the batch size may be unset (0) or negative.
RawConfigs ==
    { [OnMissing |-> m,
       Log |-> [Level |-> lv],
       Kandji |-> [ApiURL |-> ku, ApiToken |-> kt,
                   SyncDevicesWithoutOwners |-> RunPolicy.SyncDevicesWithoutOwners,
                   SyncMobileDevices |-> RunPolicy.SyncMobileDevices,
                   IncludeTags |-> RunPolicy.IncludeTags,
                   ExcludeTags |-> RunPolicy.ExcludeTags,
                   BlueprintsInclude |-> RunPolicy.BlueprintsInclude,
                   BlueprintsExclude |-> RunPolicy.BlueprintsExclude],
       Cloudflare |-> [ApiToken |-> ct, AccountID |-> ca, ListID |-> li, SourceListIDs |-> sl],
       Batch |-> [Size |-> b]] :
        m \in {"", "delete", "purge"}, lv \in {"", "loud"},
        ku \in {"", "https://k"}, kt \in {"", "kt"}, ct \in {"", "ct"}, ca \in {"", "acc"},
        li \in {"", TargetListID}, sl \in { <<"L1", "L2">>, <<"L1", TargetListID>> },
        b \in {-1, 0, MaxRawBatchSize} }

\* ParseConfig, its defaults: on_missing, the log level and the batch size when unset.
ApplyDefaults(c) ==
    [c EXCEPT !.Log.Level = IF @ = "" THEN "info" ELSE @,
              !.OnMissing = IF @ = "" THEN "ignore" ELSE @,
              !.Batch.Size = IF @ = 0 THEN DefaultBatchSize ELSE @]

\* Mutant of Validate: the source lists are not compared with the target list.
ValidateWithoutSourceCheck(c) ==
    IF c.Kandji.ApiURL = "" THEN "KANDJI_API_URL is required"
    ELSE IF c.Kandji.ApiToken = "" THEN "KANDJI_API_TOKEN is required"
    ELSE IF c.Cloudflare.ApiToken = "" THEN "CLOUDFLARE_API_TOKEN is required"
    ELSE IF c.Cloudflare.AccountID = "" THEN "CLOUDFLARE_ACCOUNT_ID is required"
    ELSE IF c.OnMissing \notin {"ignore", "delete", "alert"} THEN "on_missing must be one of"
    ELSE ""

\* Config.Validate: the error it returns, "" for nil.
Validate(c) ==
    IF c.Kandji.ApiURL = "" THEN "KANDJI_API_URL is required"
    ELSE IF c.Kandji.ApiToken = "" THEN "KANDJI_API_TOKEN is required"
    ELSE IF c.Cloudflare.ApiToken = "" THEN "CLOUDFLARE_API_TOKEN is required"
    ELSE IF c.Cloudflare.AccountID = "" THEN "CLOUDFLARE_ACCOUNT_ID is required"
    ELSE IF \E i \in 1..Len(c.Cloudflare.SourceListIDs) :
                c.Cloudflare.SourceListIDs[i] = c.Cloudflare.ListID
         THEN "CLOUDFLARE_SOURCE_LIST_IDS cannot contain the target list ID"
    ELSE IF c.OnMissing \notin {"ignore", "delete", "alert"} THEN "on_missing must be one of"
    ELSE ""

\* cloudflare.NewClient: the error it returns, "" for nil.
NewClient(cfg) ==
    IF cfg.ApiToken = "" THEN "Cloudflare API token is required"
    ELSE IF cfg.AccountID = "" THEN "Cloudflare account ID is required"
    ELSE IF cfg.ListID = "" THEN "Cloudflare list ID is required"
    ELSE ""

\* The locals of Sync and the records kept of a pass.
syncLocals ==
    <<idx, kandjiDevices, filteredKandjiDevices, mergedSourceSerials,
      sourceListDescriptions, targetSerialSet, toRemove, toAdd, sourceListItemsCache,
      cfDevices, summary, removeReqs, appendReqs, failures, prevApplied>>

\* What the steps of main before Run leave alone.
startupFrame ==
    <<directory, lists, target, pc, result, syncLocals, clientVars, rawConfig, ctxDone>>

\* What the steps of Run that call no Sync leave alone.
runFrame ==
    <<config, directory, lists, target, pc, result, log, syncLocals, clientVars, rawConfig>>

\* main has called Run, which has not returned.
InRun == run.at \in {"Run", "loop"}

\* The process is alive: no panic has ended it.
Alive == pc /= "panic"

\* Run is in its select: no call of Sync is in progress.
Idle == run.at = "loop" /\ run.active = 0

RunInit ==
    /\ rawConfig \in RawConfigs
    /\ config = rawConfig
    /\ directory = <<Device("A", "nA", "a@x", "Mac")>>
    /\ lists \in ListWorlds
    /\ target \in TargetInits
    /\ run = RunState("main", 0, FALSE, 0)
    /\ ctxDone = FALSE
    /\ pager = NoPager
    /\ pc = "idle"
    /\ result = "none"
    /\ idx = 1
    /\ kandjiDevices = <<>>
    /\ filteredKandjiDevices = <<>>
    /\ mergedSourceSerials = {}
    /\ sourceListDescriptions = EmptyMap
    /\ targetSerialSet = {}
    /\ toRemove = <<>>
    /\ toAdd = <<>>
    /\ sourceListItemsCache = EmptyMap
    /\ cfDevices = <<>>
    /\ log = {}
    /\ summary = <<>>
    /\ removeReqs = <<>>
    /\ appendReqs = <<>>
    /\ failures = 0
    /\ prevApplied = FALSE
    /\ bulkResult = EmptyResult
    /\ deleteCalls = <<>>
    /\ limiter = NewLimiter(1)
    /\ wire = <<>>

\* main: config.ParseConfig reads the configuration, sets the defaults and validates;
\* an error ends the process with status 1.
ParseConfig ==
    /\ run.at = "main"
    /\ \E readable \in BOOLEAN :
          LET cfg == ApplyDefaults(rawConfig)
          IN  IF readable /\ Validate(cfg) = ""
              THEN /\ config' = cfg
                   /\ run' = [run EXCEPT !.at = "clients"]
                   /\ UNCHANGED log
              ELSE /\ log' = log \cup {LogRec("Failed to load configuration", <<>>)}
                   /\ run' = [run EXCEPT !.at = "exit1"]
                   /\ UNCHANGED config
    /\ UNCHANGED startupFrame

\* main: the log level is parsed, the limiter and the two clients are created; an
\* error ends the process with status 1. kandji.NewClient may fail or not.
CreateClients ==
    /\ run.at = "clients"
    /\ \E kandjiOk \in BOOLEAN :
          IF config.Log.Level \notin LogLevels
          THEN /\ log' = log \cup {LogRec("Invalid log level", <<>>)}
               /\ run' = [run EXCEPT !.at = "exit1"]
          ELSE IF ~kandjiOk
          THEN /\ log' = log \cup {LogRec("Failed to create Kandji client", <<>>)}
               /\ run' = [run EXCEPT !.at = "exit1"]
          ELSE IF NewClient(config.Cloudflare) /= ""
          THEN /\ log' = log \cup {LogRec("Failed to create Cloudflare client", <<>>)}
               /\ run' = [run EXCEPT !.at = "exit1"]
          ELSE /\ run' = [run EXCEPT !.at = "validate"]
               /\ UNCHANGED log
    /\ UNCHANGED <<config, startupFrame>>

\* main: ValidateListExists; then the context, the signal handler and the call of Run,
\* which creates its ticker.
ValidateListExists ==
    /\ run.at = "validate"
    /\ \E ok \in BOOLEAN :
          IF ok
          THEN /\ run' = [run EXCEPT !.at = "Run"]
               /\ UNCHANGED log
          ELSE /\ log' = log \cup {LogRec("Failed to validate Cloudflare list", <<>>)}
               /\ run' = [run EXCEPT !.at = "exit1"]
    /\ UNCHANGED <<config, startupFrame>>

\* The ticker fires: the tick waits in ticker.C, whose buffer holds one tick; a tick
\* that finds the buffer full is dropped by the runtime and changes nothing.
Tick ==
    /\ InRun /\ Alive
    /\ run.ticker = 0
    /\ run' = [run EXCEPT !.ticker = 1, !.during = (run.active > 0)]
    /\ UNCHANGED <<runFrame, ctxDone>>

\* main's goroutine: SIGINT or SIGTERM arrives and cancel() is called.
Signal ==
    /\ InRun /\ Alive
    /\ ~ctxDone
    /\ ctxDone' = TRUE
    /\ UNCHANGED <<runFrame, run>>

\* Mutant of RunFirstSync: Run waits for a tick before its first Sync.
RunFirstSyncAfterTick ==
    /\ run.at = "Run"
    /\ run.ticker = 1
    /\ GetDevicesAndFilter
    /\ run' = RunState("loop", 0, FALSE, run.active + 1)
    /\ UNCHANGED <<rawConfig, ctxDone>>

\* Run: "Run a sync immediately on start-up": s.Sync(ctx) before the loop.
RunFirstSync ==
    /\ run.at = "Run"
    /\ GetDevicesAndFilter
    /\ run' = [run EXCEPT !.at = "loop", !.active = @ + 1]
    /\ UNCHANGED <<rawConfig, ctxDone>>

\* Mutant of SyncReturns: a pass that failed is run again at once.
SyncReturnsRetry ==
    /\ run.at = "loop" /\ run.active > 0
    /\ pc = "idle"
    /\ IF result = "returned"
       THEN /\ GetDevicesAndFilter
            /\ UNCHANGED orchVars
       ELSE /\ run' = [run EXCEPT !.active = @ - 1]
            /\ UNCHANGED <<runFrame, ctxDone>>

\* s.Sync(ctx) returns to Run, which goes (back) to its select.
SyncReturns ==
    /\ run.at = "loop" /\ run.active > 0
    /\ pc = "idle"
    /\ run' = [run EXCEPT !.active = @ - 1]
    /\ UNCHANGED <<runFrame, ctxDone>>

\* Mutant of ReceiveTick: the pass is started without waiting for the one before
\* (go s.Sync(ctx)).
ReceiveTickGo ==
    /\ run.at = "loop"
    /\ run.ticker = 1
    /\ GetDevicesAndFilter
    /\ run' = RunState("loop", 0, FALSE, run.active + 1)
    /\ UNCHANGED <<rawConfig, ctxDone>>

\* Run, select: case <-ticker.C: s.Sync(ctx). When the context is done as well, select
\* takes either case.
ReceiveTick ==
    /\ Idle
    /\ run.ticker = 1
    /\ GetDevicesAndFilter
    /\ run' = RunState("loop", 0, FALSE, run.active + 1)
    /\ UNCHANGED <<rawConfig, ctxDone>>

\* Mutant of ReceiveDone: Run returns from its select with the context not done.
ReceiveDoneAnyway ==
    /\ Idle
    /\ run' = [run EXCEPT !.at = "returned"]
    /\ UNCHANGED <<runFrame, ctxDone>>

\* Run, select: case <-ctx.Done(): return. main then logs the shutdown and ends.
ReceiveDone ==
    /\ Idle
    /\ ctxDone
    /\ run' = [run EXCEPT !.at = "returned"]
    /\ UNCHANGED <<runFrame, ctxDone>>

RunNext ==
    \/ ParseConfig
    \/ CreateClients
    \/ ValidateListExists
    \/ Tick
    \/ Signal
    \/ RunFirstSync
    \/ ReceiveTick
    \/ ReceiveDone
    \/ SyncReturns
    \/ MergeSourceList
    \/ FetchTarget
    \/ DeleteMissing
    \/ CacheSourceList
    \/ BuildAdditions
    \/ AppendAndFinish

RunSpec == RunInit /\ [][RunNext]_vars

\* Run under the scheduling of Go: a call of Sync in progress takes its next step and
\* returns (every request returns, by its answer, its timeout or the context), and a
\* select whose ctx.Done case is ready again and again takes it in the end (select
\* chooses among its ready cases at random).
RunFairSpec ==
    /\ RunSpec
    /\ WF_vars(RunFirstSync)
    /\ WF_vars(MergeSourceList)
    /\ WF_vars(FetchTarget)
    /\ WF_vars(DeleteMissing)
    /\ WF_vars(CacheSourceList)
    /\ WF_vars(BuildAdditions)
    /\ WF_vars(AppendAndFinish)
    /\ WF_vars(SyncReturns)
    /\ SF_vars(ReceiveDone)

\* ------------------------------------------------------------------ what the pass is meant to compute

\* The identifiers of the eligible devices of the directory.
EligibleSerials ==
    {directory[i].SerialNumber :
        i \in {j \in 1..Len(directory) : IncludeDevice(directory[j], config.Kandji)}}

\* The configured auxiliary lists whose item-kind is the target's.
MatchingLists == {l \in SeqToSet(SourceListIDs) : lists[l].Type = TargetType}

\* The configured auxiliary lists of another item-kind.
MismatchedLists == SeqToSet(SourceListIDs) \ MatchingLists

\* The merged source-identifier set: eligible devices plus matching auxiliary items.
MergedSourceSet == EligibleSerials \cup UNION {SeqToSet(lists[l].Items) : l \in MatchingLists}

\* The pass has computed its whole plan (toRemove, toAdd, cfDevices).
Planned == pc = "append" \/ (pc = "idle" /\ result = "complete")

\* The pass ran to its summary.
PassComplete == pc = "idle" /\ result = "complete"

\* The identifiers of the remove requests, of the proposed additions, of the payload
\* and of the append requests of the pass.
RemoveSubmitted == UNION {SeqToSet(removeReqs[b]) : b \in 1..Len(removeReqs)}
Proposed == {toAdd[i].SerialNumber : i \in 1..Len(toAdd)}
Payload == {cfDevices[i].Value : i \in 1..Len(cfDevices)}
AppendSubmitted ==
    UNION {{appendReqs[b][i].Value : i \in 1..Len(appendReqs[b])} : b \in 1..Len(appendReqs)}

\* ------------------------------------------------------------------ claims

\* C1: under on_missing = delete, with the directory, the auxiliary lists and the
\* filter policy fixed, every pass that runs to its end with no failing request leaves
\* the target equal to the merged source set (eligible device identifiers plus the
\* items of the matching-kind auxiliary lists): after the first such pass and after
\* every later one.
C1_TargetEqualsMergedSet ==
    (config.OnMissing = "delete" /\ PassComplete /\ failures = 0) => target = MergedSourceSet

\* C2: reconciliation is idempotent: when the previous pass ran to its end with no
\* failing request (its plan was fully applied) and the present pass has seen the same
\* source data (no request of it failed), the present pass proposes no removal and no
\* addition.
C2_SecondPassPlansNothing ==
    (prevApplied /\ Planned /\ failures = 0) => (toRemove = <<>> /\ toAdd = <<>>)

\* C3: under on_missing = delete, the identifiers a pass submits for removal are
\* exactly the values of the target snapshot that are absent from the merged source
\* set (target {A,B}, merged {A,C}: removals {B}).
C3_RemovalsAreTargetMinusMerged ==
    (config.OnMissing = "delete" /\ Planned /\ failures = 0)
        => RemoveSubmitted = targetSerialSet \ MergedSourceSet

\* C4: in every pass the additions and the removals are disjoint, and no identifier
\* of the pass's target snapshot is proposed or submitted for addition.
C4_AdditionsRemovalsDisjoint ==
    LET additions == Proposed \cup Payload \cup AppendSubmitted
        removals  == SeqToSet(toRemove) \cup RemoveSubmitted
    IN  /\ additions \cap removals = {}
        /\ additions \cap targetSerialSet = {}

\* C4 witness: a pass that sent a remove request and an append request.
C4_Witness ==
    /\ PassComplete
    /\ RemoveSubmitted /= {}
    /\ AppendSubmitted /= {}

\* C5: under on_missing = ignore no step of any pass removes an item from the target,
\* and no removal is computed or submitted.
C5_IgnoreNeverRemoves ==
    [][config.OnMissing = "ignore"
         => (target \subseteq target' /\ toRemove' = <<>> /\ removeReqs' = <<>>)]_vars

\* C5 witness: the scenario target {A,B}, merged source set {A,C}, policy ignore: the
\* pass ends with B still in the target and C added.
C5_Witness ==
    /\ config.OnMissing = "ignore"
    /\ PassComplete
    /\ targetSerialSet = {"A", "B"}
    /\ MergedSourceSet = {"A", "C"}
    /\ AppendSubmitted = {"C"}
    /\ target = {"A", "B", "C"}

\* C6: under on_missing = alert a pass applies no removal, and the target items with
\* no identifier in the merged source set are surfaced in a log record of the pass.
C6_AlertSurfacesMissing ==
    (config.OnMissing = "alert" /\ PassComplete /\ failures = 0)
        => /\ removeReqs = <<>>
           /\ targetSerialSet \ MergedSourceSet /= {}
                => \E r \in log : SeqToSet(r.serials) = targetSerialSet \ MergedSourceSet

\* What C7 says toAdd holds after the loop over the devices: (identifier, display name)
\* of each eligible device absent from the target snapshot, in device order.
C7_DeviceAdditions ==
    LET absent == SelectSeq(directory,
                            LAMBDA d : IncludeDevice(d, config.Kandji)
                                       /\ d.SerialNumber \notin targetSerialSet)
    IN  [i \in 1..Len(absent) |->
            [SerialNumber |-> absent[i].SerialNumber, Comment |-> absent[i].DeviceName]]

\* What C7 says the auxiliary lists from the n-th on add: (value, description of the
\* list) of each item absent from the target snapshot.
RECURSIVE C7_ListAdditions(_)
C7_ListAdditions(n) ==
    IF n > Len(SourceListIDs) THEN <<>>
    ELSE LET list   == lists[SourceListIDs[n]]
             absent == SelectSeq(list.Items, LAMBDA v : v \notin targetSerialSet)
         IN  [i \in 1..Len(absent) |->
                 [SerialNumber |-> absent[i], Comment |-> list.Description]]
             \o C7_ListAdditions(n + 1)

\* C7: the additions a pass proposes are those of the eligible devices absent from the
\* target snapshot, with their display names, in device order, followed by those of
\* the auxiliary items absent from the target snapshot, with the description of their
\* list ("" when it is empty), and nothing else. Stated for passes in which every
\* request succeeds, so that every description is available.
C7_ProposedAdditions ==
    (Planned /\ failures = 0) => toAdd = C7_DeviceAdditions \o C7_ListAdditions(1)

\* C8: no item of an auxiliary list whose item-kind differs from the target's is used:
\* a value that only such a list holds is neither merged into the source set nor
\* proposed or submitted as an addition, and the mismatch is logged.
C8_MismatchedKindUnused ==
    \A l \in MismatchedLists :
        /\ \A v \in SeqToSet(lists[l].Items) \ MergedSourceSet :
              /\ v \notin mergedSourceSerials
              /\ v \notin Proposed
              /\ v \notin AppendSubmitted
        /\ (Planned /\ failures = 0)
              => LogRec("Source list type does not match target list type", <<l>>) \in log

\* The position of the first proposed addition of identifier v.
C9_FirstProposal(v) ==
    CHOOSE i \in 1..Len(toAdd) :
        /\ toAdd[i].SerialNumber = v
        /\ \A j \in 1..(i - 1) : toAdd[j].SerialNumber /= v

\* The items of the append requests of the pass, in the order sent.
RECURSIVE C9_Flatten(_)
C9_Flatten(reqs) == IF reqs = <<>> THEN <<>> ELSE Head(reqs) \o C9_Flatten(Tail(reqs))

\* C9: the addition payload of a pass holds each identifier at most once, with the
\* comment of the identifier's first proposal; it holds exactly the proposed identifiers
\* that are not in the target snapshot; what is sent is that payload; and dropping
\* the others never ends the pass: a pass returns early only on a failed request.
C9_PayloadDeduplicated ==
    (pc \in {"append", "idle"}) =>
        /\ \A i, j \in 1..Len(cfDevices) : cfDevices[i].Value = cfDevices[j].Value => i = j
        /\ Payload = Proposed \ targetSerialSet
        /\ \A i \in 1..Len(cfDevices) :
              cfDevices[i].Comment = toAdd[C9_FirstProposal(cfDevices[i].Value)].Comment
        /\ appendReqs /= <<>> => C9_Flatten(appendReqs) = cfDevices
        /\ (pc = "idle" /\ result = "returned") => failures > 0

\* C9 witness: a pass that proposed an identifier twice, with two comments, sent the
\* shorter payload and ran to its end.
C9_Witness ==
    /\ PassComplete
    /\ Len(cfDevices) < Len(toAdd)
    /\ \E i, j \in 1..Len(toAdd) :
          /\ i < j
          /\ toAdd[i].SerialNumber = toAdd[j].SerialNumber
          /\ toAdd[i].Comment /= toAdd[j].Comment
    /\ C9_Flatten(appendReqs) = cfDevices

\* The display name of the first eligible device of the directory with identifier v.
C10_DeviceName(v) ==
    LET mine(k) == IncludeDevice(directory[k], config.Kandji) /\ directory[k].SerialNumber = v
        first   == CHOOSE k \in 1..Len(directory) : mine(k) /\ \A j \in 1..(k - 1) : ~mine(j)
    IN  directory[first].DeviceName

\* The items of the payload and of the append requests of the pass.
C10_Sent ==
    {cfDevices[i] : i \in 1..Len(cfDevices)}
    \cup UNION {{appendReqs[b][i] : i \in 1..Len(appendReqs[b])} : b \in 1..Len(appendReqs)}

\* C10: an addition whose identifier is that of an eligible device carries the device's
\* display name as comment, also when an auxiliary list holds the identifier too.
C10_DeviceCommentWins ==
    (pc \in {"append", "idle"}) =>
        \A item \in C10_Sent :
            item.Value \in EligibleSerials => item.Comment = C10_DeviceName(item.Value)

\* C10 witness: a pass sent, with the device's name, an identifier that a cached
\* auxiliary list with a description holds too.
C10_Witness ==
    /\ PassComplete
    /\ \E b \in 1..Len(appendReqs) : \E i \in 1..Len(appendReqs[b]) :
          LET item == appendReqs[b][i]
          IN  /\ item.Value \in EligibleSerials
              /\ item.Comment = C10_DeviceName(item.Value)
              /\ \E l \in DOMAIN sourceListItemsCache :
                    /\ item.Value \in SeqToSet(sourceListItemsCache[l])
                    /\ MapGetString(sourceListDescriptions, l) /= ""

\* The place of an auxiliary list identifier in the lexicographic order of the
\* identifiers configured.
C11_Rank(l) == IF l = "L1" THEN 1 ELSE 2

\* The matching-kind auxiliary lists that hold identifier v.
C11_Holders(v) == {l \in MatchingLists : v \in SeqToSet(lists[l].Items)}

\* The lexicographically smallest auxiliary list that holds identifier v.
C11_Smallest(v) ==
    CHOOSE l \in C11_Holders(v) : \A m \in C11_Holders(v) : C11_Rank(l) <= C11_Rank(m)

\* C11: an identifier that is neither in the target snapshot nor that of an eligible
\* device, and that two auxiliary lists with different descriptions hold, is sent with
\* the description of the list whose identifier is lexicographically smallest, in
\* whatever order the configuration names the lists. Stated for passes in which every
\* request succeeds.
C11_SmallestListComment ==
    (Planned /\ failures = 0) =>
        \A i \in 1..Len(cfDevices) :
            LET v == cfDevices[i].Value
            IN  (/\ v \notin EligibleSerials
                 /\ \E l, m \in C11_Holders(v) : lists[l].Description /= lists[m].Description)
                => cfDevices[i].Comment = lists[C11_Smallest(v)].Description

\* The devices the filter loop has been over, and those it kept.
FilterSeen == SubSeq(kandjiDevices, 1, idx - 1)
FilterKept(d) == d \in SeqToSet(filteredKandjiDevices)

\* The platform classes the filter takes for mobile.
IsMobile(d) == d.Platform \in {"iPhone", "iPad"}

\* Rules 1 to 5 of the filter, each as the condition under which the device passes.
RuleIdentifier(d) == d.SerialNumber /= ""
RuleOwner(d, k) == d.UserEmail /= "" \/ k.SyncDevicesWithoutOwners
RuleMobile(d, k) == ~IsMobile(d) \/ k.SyncMobileDevices
RuleIncludeTags(d, k) ==
    SeqToSet(k.IncludeTags) = {} \/ SeqToSet(d.Tags) \cap SeqToSet(k.IncludeTags) /= {}
RuleExcludeTags(d, k) ==
    SeqToSet(k.ExcludeTags) = {} \/ SeqToSet(d.Tags) \cap SeqToSet(k.ExcludeTags) = {}

\* The device's blueprint is in an exclude set, in an include set.
BlueprintExcluded(d, k) ==
    \/ d.BlueprintID \in SeqToSet(k.BlueprintsExclude.BlueprintIDs)
    \/ d.BlueprintName \in SeqToSet(k.BlueprintsExclude.BlueprintNames)
BlueprintIncluded(d, k) ==
    \/ d.BlueprintID \in SeqToSet(k.BlueprintsInclude.BlueprintIDs)
    \/ d.BlueprintName \in SeqToSet(k.BlueprintsInclude.BlueprintNames)
NoBlueprintInclude(k) ==
    k.BlueprintsInclude.BlueprintIDs = <<>> /\ k.BlueprintsInclude.BlueprintNames = <<>>

\* Rule 6: the blueprint filter admits the device.
RuleBlueprint(d, k) ==
    ~BlueprintExcluded(d, k) /\ (NoBlueprintInclude(k) \/ BlueprintIncluded(d, k))

\* C12: the devices the filter loop keeps are, in their order, exactly the devices
\* that pass all six rules: identifier, owner, platform, include tags, exclude tags,
\* blueprint; so whether a device is kept depends on the device and the policy only,
\* not on the devices around it.
C12_EligibleIffSixRules ==
    pc = "filter" =>
        filteredKandjiDevices =
            SelectSeq(FilterSeen,
                      LAMBDA d : /\ RuleIdentifier(d)
                                 /\ RuleOwner(d, config.Kandji)
                                 /\ RuleMobile(d, config.Kandji)
                                 /\ RuleIncludeTags(d, config.Kandji)
                                 /\ RuleExcludeTags(d, config.Kandji)
                                 /\ RuleBlueprint(d, config.Kandji))

\* C12 witness: the loop went over several devices under a policy with tag and
\* blueprint filters, kept some and skipped some.
C12_Witness ==
    /\ pc = "filter"
    /\ idx > Len(kandjiDevices)
    /\ Len(kandjiDevices) >= 2
    /\ filteredKandjiDevices /= <<>>
    /\ Len(filteredKandjiDevices) < Len(kandjiDevices)
    /\ config.Kandji.IncludeTags /= <<>>
    /\ config.Kandji.ExcludeTags /= <<>>
    /\ ~NoBlueprintInclude(config.Kandji)

\* C13: exclude wins over include: a device whose blueprint id or name is excluded is
\* skipped also when its id or name is included, a device with an excluded tag is
\* skipped also when it has an included tag, and with no blueprint include filter the
\* blueprint filter skips none of the devices it does not exclude.
C13_ExcludeWins ==
    pc = "filter" =>
        \A i \in 1..Len(FilterSeen) :
            LET d == FilterSeen[i]
                k == config.Kandji
            IN  /\ BlueprintExcluded(d, k) => ~FilterKept(d)
                /\ SeqToSet(d.Tags) \cap SeqToSet(k.ExcludeTags) /= {} => ~FilterKept(d)
                /\ (NoBlueprintInclude(k) /\ ~BlueprintExcluded(d, k))
                      => (FilterKept(d) <=> /\ RuleIdentifier(d)
                                            /\ RuleOwner(d, k)
                                            /\ RuleMobile(d, k)
                                            /\ RuleIncludeTags(d, k)
                                            /\ RuleExcludeTags(d, k))

\* C13 witness: the loop skipped a device whose blueprint is in an include and in an
\* exclude set and which has an included and an excluded tag, and that passes the
\* other rules.
C13_Witness ==
    /\ pc = "filter"
    /\ \E i \in 1..Len(FilterSeen) :
          LET d == FilterSeen[i]
              k == config.Kandji
          IN  /\ BlueprintExcluded(d, k) /\ BlueprintIncluded(d, k)
              /\ SeqToSet(d.Tags) \cap SeqToSet(k.ExcludeTags) /= {}
              /\ SeqToSet(d.Tags) \cap SeqToSet(k.IncludeTags) /= {}
              /\ RuleIdentifier(d) /\ RuleOwner(d, k) /\ RuleMobile(d, k)
              /\ ~FilterKept(d)

\* The scenario of C14: an owned desktop, an unowned desktop, an owned iPhone.
C14_Scenario ==
    /\ Len(kandjiDevices) = 3
    /\ kandjiDevices[1].UserEmail /= "" /\ ~IsMobile(kandjiDevices[1])
    /\ kandjiDevices[2].UserEmail = "" /\ ~IsMobile(kandjiDevices[2])
    /\ kandjiDevices[3].UserEmail /= "" /\ kandjiDevices[3].Platform = "iPhone"
    /\ \A i \in 1..3 : /\ RuleIdentifier(kandjiDevices[i])
                        /\ RuleIncludeTags(kandjiDevices[i], config.Kandji)
                        /\ RuleExcludeTags(kandjiDevices[i], config.Kandji)
                        /\ RuleBlueprint(kandjiDevices[i], config.Kandji)
    /\ ~config.Kandji.SyncDevicesWithoutOwners
    /\ ~config.Kandji.SyncMobileDevices

\* C14: a device with an empty identifier is always skipped; a device with an empty
\* owner that passes the other rules is skipped exactly when owners are required; a
\* mobile device that passes the other rules is skipped exactly when mobile devices
\* are not synced; and the scenario [owned desktop, unowned desktop, owned iPhone]
\* under a policy that requires owners and leaves mobile out keeps the first device
\* only.
C14_IdentifierOwnerMobile ==
    pc = "filter" =>
        /\ \A i \in 1..Len(FilterSeen) :
              LET d == FilterSeen[i]
                  k == config.Kandji
                  others == /\ RuleIdentifier(d) /\ RuleIncludeTags(d, k)
                            /\ RuleExcludeTags(d, k) /\ RuleBlueprint(d, k)
              IN  /\ d.SerialNumber = "" => ~FilterKept(d)
                  /\ (d.UserEmail = "" /\ others /\ RuleMobile(d, k))
                        => (~FilterKept(d) <=> ~k.SyncDevicesWithoutOwners)
                  /\ (IsMobile(d) /\ others /\ RuleOwner(d, k))
                        => (~FilterKept(d) <=> ~k.SyncMobileDevices)
        /\ (C14_Scenario /\ idx > Len(kandjiDevices))
              => filteredKandjiDevices = <<kandjiDevices[1]>>

\* C14 witness: the scenario, filtered to its first device.
C14_Witness ==
    /\ pc = "filter"
    /\ C14_Scenario
    /\ idx > Len(kandjiDevices)
    /\ filteredKandjiDevices = <<kandjiDevices[1]>>
    /\ kandjiDevices[1].SerialNumber = "A"
    /\ kandjiDevices[2].SerialNumber = "B"
    /\ kandjiDevices[3].SerialNumber = "C"

\* ceil(n / b) for a positive b.
CeilDiv(n, b) == (n + b - 1) \div b

\* The concatenation of a sequence of sequences.
RECURSIVE Concat(_)
Concat(ss) == IF ss = <<>> THEN <<>> ELSE Head(ss) \o Concat(Tail(ss))

\* The identifiers of a batch that go into its request: the non-empty ones.
Requested(batch) == SelectSeq(batch, LAMBDA s : s /= "")

\* The batches deleteDeviceBatch was called with, in order.
DeleteBatchesSeen == [b \in 1..Len(deleteCalls) |-> deleteCalls[b].serialNumbers]

\* DeleteDevices has returned.
RemovalsApplied == pc \in {"add", "applied"}

\* C15: DeleteDevices over N identifiers with batch size B > 0 returns, having handed
\* ceil(N/B) batches to deleteDeviceBatch; each batch holds 1 to B identifiers; the
\* batches one after the other are the input, so each is a contiguous slice in input
\* order and every identifier is in exactly one; and when no identifier is empty the
\* remove requests sent are those batches.
C15_RemovalBatches ==
    RemovalsApplied =>
        LET N == Len(toRemove)
            B == config.Batch.Size
        IN  /\ Len(deleteCalls) = CeilDiv(N, B)
            /\ \A b \in 1..Len(deleteCalls) :
                  Len(DeleteBatchesSeen[b]) >= 1 /\ Len(DeleteBatchesSeen[b]) <= B
            /\ Concat(DeleteBatchesSeen) = toRemove
            /\ "" \notin SeqToSet(toRemove) => removeReqs = DeleteBatchesSeen

\* C15 witness: four identifiers in batches of three: two batches, the last one
\* shorter, both sent.
C15_Witness ==
    /\ RemovalsApplied
    /\ Len(toRemove) = 4
    /\ "" \notin SeqToSet(toRemove)
    /\ config.Batch.Size = 3
    /\ removeReqs = <<SubSeq(toRemove, 1, 3), SubSeq(toRemove, 4, 4)>>

\* C16: the append requests of one call are ceil(N/B) contiguous batches of the N
\* items, of at most B items each, every item in exactly one (batch size 2 and items
\* [A,B,C]: [[A,B],[C]]); no append request carries more than B items.
C16_AdditionBatches ==
    pc = "applied" =>
        LET N == Len(cfDevices)
            B == config.Batch.Size
        IN  /\ Len(appendReqs) = CeilDiv(N, B)
            /\ \A b \in 1..Len(appendReqs) : Len(appendReqs[b]) <= B
            /\ Concat(appendReqs) = cfDevices

\* C17: when the request of a removal batch fails, every identifier of the batch is in
\* FailedDevices, so that SuccessCount plus the number of FailedDevices is the number
\* of identifiers submitted.
C17_BatchFailureAttributed ==
    RemovalsApplied =>
        /\ \A b \in 1..Len(deleteCalls) :
              (~deleteCalls[b].ok /\ Requested(deleteCalls[b].serialNumbers) /= <<>>)
                => \A s \in SeqToSet(deleteCalls[b].serialNumbers) :
                      \E i \in 1..Len(bulkResult.FailedDevices) :
                          bulkResult.FailedDevices[i].SerialNumber = s
        /\ bulkResult.SuccessCount + Len(bulkResult.FailedDevices) = Len(toRemove)

\* C18: a failure does not stop DeleteDevices: every batch is handed to
\* deleteDeviceBatch and every batch with a non-empty identifier has its request sent,
\* whatever was answered to the batches before it; each empty identifier is one entry
\* of FailedDevices, and the other identifiers of its batch are in the batch's request.
C18_FailureDoesNotStop ==
    RemovalsApplied =>
        LET batches  == DeleteBatchesSeen
            withReq  == SelectSeq(batches, LAMBDA batch : Requested(batch) /= <<>>)
            empties  == SelectSeq(toRemove, LAMBDA s : s = "")
            failedEmpty ==
                SelectSeq(bulkResult.FailedDevices, LAMBDA f : f.SerialNumber = "")
        IN  /\ Len(deleteCalls) = CeilDiv(Len(toRemove), config.Batch.Size)
            /\ removeReqs = [b \in 1..Len(withReq) |-> Requested(withReq[b])]
            /\ Len(failedEmpty) = Len(empties)
            /\ \A i \in 1..Len(failedEmpty) : ~failedEmpty[i].Success

\* C18 witness: the request of the first batch failed and that of the second
\* succeeded; the first batch held an empty identifier, recorded as a failure, and
\* another identifier, which was sent.
C18_Witness ==
    /\ RemovalsApplied
    /\ Len(deleteCalls) = 2
    /\ ~deleteCalls[1].ok
    /\ deleteCalls[2].ok
    /\ "" \in SeqToSet(deleteCalls[1].serialNumbers)
    /\ Len(removeReqs) = 2
    /\ removeReqs[1] /= <<>>
    /\ Len(bulkResult.Errors) = 1
    /\ Len(bulkResult.FailedDevices) = 1
    /\ bulkResult.SuccessCount = Len(removeReqs[2])

\* C19: every request dispatched is immediately preceded by an acquire of its own on
\* the pool of the API it goes to: the Cloudflare pool for the requests of the
\* Cloudflare client (list kind, metadata, items, append PATCH, remove PATCH,
\* validation), the Kandji pool for those to Kandji.
C19_AcquireBeforeRequest ==
    \A i \in 1..Len(wire) :
        wire[i].kind = "request"
            => /\ i > 1
               /\ wire[i - 1].kind = "acquire"
               /\ wire[i - 1].pool = wire[i].pool

\* The methods of the Limiter on each pool.
C20_KandjiMethods == {"WaitForKandji", "AllowKandji"}
C20_CloudflareMethods == {"WaitForCloudflare", "AllowCloudflare"}

\* The step is a call of a Limiter method of the set ops: its entry was added to the
\* record.
C20_Called(ops) ==
    /\ Len(wire') = Len(wire) + 1
    /\ wire'[Len(wire')].op \in ops

\* A call on one pool leaves the other pool as it was, and takes one token of its own
\* pool exactly when it acquires.
C20_Frame ==
    /\ C20_Called(C20_KandjiMethods)
          => /\ limiter'.cloudflareLimiter = limiter.cloudflareLimiter
             /\ limiter'.kandjiLimiter.tokens =
                    limiter.kandjiLimiter.tokens
                    - (IF wire'[Len(wire')].kind = "acquire" THEN 1 ELSE 0)
    /\ C20_Called(C20_CloudflareMethods)
          => /\ limiter'.kandjiLimiter = limiter.kandjiLimiter
             /\ limiter'.cloudflareLimiter.tokens =
                    limiter.cloudflareLimiter.tokens
                    - (IF wire'[Len(wire')].kind = "acquire" THEN 1 ELSE 0)

\* The last entry of the record after the step is an acquire by op.
C20_Acquires(op) ==
    /\ Len(wire') = Len(wire) + 1
    /\ wire'[Len(wire')] = Event("acquire", IF op \in C20_KandjiMethods THEN "kandji"
                                             ELSE "cloudflare", op)

\* With a token in a pool, Wait and Allow on it acquire, also when the other pool is
\* exhausted.
C20_NotBlocked ==
    (pc = "client" /\ Len(wire) < MaxWire) =>
        /\ limiter.cloudflareLimiter.tokens > 0
              => /\ ENABLED (WaitForCloudflare /\ C20_Acquires("WaitForCloudflare"))
                 /\ ENABLED (AllowCloudflare /\ C20_Acquires("AllowCloudflare"))
        /\ limiter.kandjiLimiter.tokens > 0
              => /\ ENABLED (WaitForKandji /\ C20_Acquires("WaitForKandji"))
                 /\ ENABLED (AllowKandji /\ C20_Acquires("AllowKandji"))

\* C20: the two pools are independent: a Wait or an Allow on the Kandji pool never
\* changes the tokens of the Cloudflare pool, and the other way round; and a pool
\* with a token grants a Wait and an Allow whatever the other pool holds, exhausted or
\* not.
C20_PoolsIndependent == [][C20_Frame]_vars /\ []C20_NotBlocked

\* C20 witness: the Kandji pool was exhausted by an acquire, and the next call, on the
\* Cloudflare pool, acquired its first token.
C20_Witness ==
    /\ pc = "client"
    /\ Len(wire) >= 2
    /\ wire[Len(wire) - 1].kind = "acquire" /\ wire[Len(wire) - 1].pool = "kandji"
    /\ wire[Len(wire)].kind = "acquire" /\ wire[Len(wire)].pool = "cloudflare"
    /\ limiter.kandjiLimiter.tokens = 0
    /\ limiter.cloudflareLimiter.tokens = limiter.cloudflareLimiter.burst - 1

\* The tokens of a pool of the limiter.
PoolTokens(lim, pool) ==
    IF pool = "kandji" THEN lim.kandjiLimiter.tokens ELSE lim.cloudflareLimiter.tokens

\* The entries the step adds to the record of acquires and requests.
NewEvents == SubSeq(wire', Len(wire) + 1, Len(wire'))

\* What a step that adds entries to the record does to the pools: an acquire took one
\* token of its pool, which held one; a cancelled Wait and a denied Allow leave the
\* pools alone, the denied Allow found its pool empty, and no request goes out in the
\* step of a cancelled Wait.
C21_Step ==
    \A i \in 1..Len(NewEvents) :
        LET e == NewEvents[i]
        IN  /\ e.kind = "acquire"
                  => /\ PoolTokens(limiter, e.pool) > 0
                     /\ PoolTokens(limiter', e.pool) = PoolTokens(limiter, e.pool) - 1
            /\ e.kind = "cancelled"
                  => /\ limiter' = limiter
                     /\ \A j \in 1..Len(NewEvents) : NewEvents[j].kind /= "request"
            /\ e.kind = "denied"
                  => /\ limiter' = limiter
                     /\ PoolTokens(limiter, e.pool) = 0

\* The step ends with an entry of this kind by op.
C21_Ends(kind, op) ==
    /\ Len(wire') > Len(wire)
    /\ wire'[Len(wire')].kind = kind
    /\ wire'[Len(wire')].op = op

\* Wait on an empty pool cannot return nil, but can return the context's error; Allow
\* can always return, and does not return false while its pool holds a token.
C21_Waits ==
    (pc = "client" /\ Len(wire) < MaxWire) =>
        /\ limiter.kandjiLimiter.tokens = 0
              => /\ ~ENABLED (WaitForKandji /\ C21_Ends("acquire", "WaitForKandji"))
                 /\ ENABLED (WaitForKandji /\ C21_Ends("cancelled", "WaitForKandji"))
        /\ limiter.cloudflareLimiter.tokens = 0
              => /\ ~ENABLED (WaitForCloudflare /\ C21_Ends("acquire", "WaitForCloudflare"))
                 /\ ENABLED (WaitForCloudflare /\ C21_Ends("cancelled", "WaitForCloudflare"))
        /\ ENABLED AllowKandji
        /\ ENABLED AllowCloudflare
        /\ limiter.kandjiLimiter.tokens > 0
              => ~ENABLED (AllowKandji /\ C21_Ends("denied", "AllowKandji"))
        /\ limiter.cloudflareLimiter.tokens > 0
              => ~ENABLED (AllowCloudflare /\ C21_Ends("denied", "AllowCloudflare"))

\* C21: Wait returns nil only after taking a token of its pool and blocks while the
\* pool is empty; when the context is done it returns the error without taking a
\* token, and makeRequest then dispatches no request. Allow never blocks: it takes a
\* token and returns true when the pool holds one, and returns false leaving the pool
\* as it was otherwise.
C21_AcquireAndTryAcquire == [][C21_Step]_vars /\ []C21_Waits

\* C21 witness: Allow took the last token of the Cloudflare pool, a makeRequest was
\* cancelled in its wait and sent nothing, and the next Allow was denied.
C21_Witness ==
    /\ pc = "client"
    /\ Len(wire) = 3
    /\ wire[1] = Event("acquire", "cloudflare", "AllowCloudflare")
    /\ wire[2] = Event("cancelled", "cloudflare", "GetListItems")
    /\ wire[3] = Event("denied", "cloudflare", "AllowCloudflare")
    /\ limiter.cloudflareLimiter.tokens = 0

\* C22: Run never has two passes in progress: at most one call of Sync has not
\* returned, however the ticks fall within or between the passes.
C22_OnePassAtATime == run.active <= 1

\* C22 witness: a tick fired while a pass was running and waits in ticker.C, and the
\* pass is still the only one in progress.
C22_Witness ==
    /\ run.at = "loop" /\ run.active = 1
    /\ pc = "cache"
    /\ run.ticker = 1 /\ run.during

\* C23: a tick that fired while a pass was running is dropped: when Run is back in its
\* select, no such tick waits in ticker.C to start the next pass.
C23_TickDuringPassDropped == Idle => ~(run.ticker = 1 /\ run.during)

\* The step starts a pass from the select of Run.
PassStartsOnTick == run.at = "loop" /\ run'.active > run.active

\* What the steps of Run do with passes and ticks: leaving start-up, Run has one pass
\* in progress and has taken no tick; in the loop a pass starts only from Idle, only
\* by taking one tick, and one pass at a time; a tick taken starts a pass; a pass
\* that returns leaves Run Idle in its loop.
C24_Step ==
    /\ (run.at = "Run" /\ run'.at /= "Run")
          => /\ run'.at = "loop"
             /\ run'.active = 1
             /\ run'.ticker = run.ticker
             /\ pc' \in {"merge", "idle"}
    /\ PassStartsOnTick
          => /\ run.active = 0 /\ run'.active = 1
             /\ run.ticker = 1 /\ run'.ticker = 0
    /\ (run.at = "loop" /\ run'.ticker < run.ticker) => run'.active = run.active + 1
    /\ run'.active < run.active => (run'.at = "loop" /\ run'.active = 0)

\* Called, Run can start its first pass with no tick; Idle with a tick waiting and the
\* context not done, the one step Run can take is to start a pass.
C24_Starts ==
    /\ run.at = "Run" => ENABLED RunFirstSync
    /\ (Idle /\ run.ticker = 1 /\ ~ctxDone) => (ENABLED ReceiveTick /\ ~ENABLED ReceiveDone)

\* C24: on start Run runs one pass at once, before it waits for any tick; afterwards,
\* while the context is not done, every tick received in Idle starts exactly one pass,
\* and every pass that returns leaves Run Idle.
C24_FirstPassThenOnePerTick == [][C24_Step]_vars /\ []C24_Starts

\* C24 witness: the first pass has returned, a tick was received in Idle and started
\* the second pass, which is running.
C24_Witness ==
    /\ run.at = "loop" /\ run.active = 1
    /\ run.ticker = 0
    /\ prevApplied
    /\ pc = "merge"

\* C25: a pass that is running when the shutdown signal arrives is not cut short: its
\* remaining steps are carried out as without the signal, so the fetch of the target
\* list can still succeed and the removals computed can still be applied.
C25_PassNotAbortedByShutdown ==
    (run.at = "loop" /\ run.active = 1 /\ ctxDone) =>
        /\ (pc = "merge" /\ idx > Len(SourceListIDs))
              => ENABLED (FetchTarget /\ pc' = "delete")
        /\ (pc = "delete" /\ Len(toRemove) > 0 /\ config.Batch.Size > 0)
              => ENABLED (DeleteMissing /\ target' /= target)

\* A call made by the pass never returns: the loop of DeleteDevices or AppendDevices
\* panicked or spins, which a batch size that is not positive brings about.
CallNeverReturns == pc \in {"panic", "hang"}

\* Run has returned only if the context is done.
C26_BlocksUntilCancelled == run.at = "returned" => ctxDone

\* C26: Run does not return while the context is not cancelled, and once the context
\* is cancelled it returns in the end, from Idle as from a running pass, provided
\* every call the pass makes returns.
C26_RunReturnsAfterCancel ==
    /\ []C26_BlocksUntilCancelled
    /\ (ctxDone ~> (run.at = "returned" \/ CallNeverReturns))

\* C26 witness: the context was cancelled while a pass was running, the requests of
\* the pass failed from then on, the pass returned, and Run has returned.
C26_Witness ==
    /\ run.at = "returned"
    /\ ctxDone
    /\ result = "returned"
    /\ failures > MaxFailures
    /\ LogRec("Failed to get devices from Cloudflare target list", <<>>) \in log

\* The step is a failure inside a pass: GetDevices failed at its start, a request of
\* the pass failed, or the pass returned early.
FailureInPass ==
    \/ run'.active > run.active /\ pc' = "idle"
    \/ pc /= "idle" /\ failures' > failures
    \/ pc /= "idle" /\ result' = "returned"

\* A failure inside a pass leaves the process alive and Run in its loop; a failed pass
\* that returns leaves Run Idle; and the body of Sync starts only when Run calls it,
\* at start-up or by taking a tick from ticker.C in Idle, never because a pass failed.
C27_Step ==
    /\ FailureInPass => (run'.at = "loop" /\ pc' \notin {"panic", "hang"})
    /\ (run'.active < run.active /\ result = "returned")
          => (run'.at = "loop" /\ run'.active = 0)
    /\ (pc = "idle" /\ pc' = "merge")
          => /\ run'.active = run.active + 1
             /\ \/ run.at = "Run"
                \/ run.active = 0 /\ run.ticker = 1 /\ run'.ticker = 0

\* After a failed pass, a tick that Run receives can start a pass like any other: from
\* step 1, with fresh locals and no failure carried over.
C27_NextPassNormal ==
    (Idle /\ result = "returned" /\ run.ticker = 1)
        => ENABLED (ReceiveTick /\ pc' = "merge" /\ failures' = 0 /\ log' = {} /\ idx' = 1)

FailedSourceLists ==
    {l \in SeqToSet(SourceListIDs) :
        \/ LogRec("Failed to fetch type for source Cloudflare list", <<l>>) \in log
        \/ LogRec("Failed to fetch items from source Cloudflare list", <<l>>) \in log}

\* The values the sources other than the failed lists hold: the eligible devices and
\* the items of the matching lists that did not fail.
RemainingSourceSet ==
    EligibleSerials \cup
        UNION {SeqToSet(lists[l].Items) : l \in MatchingLists \ FailedSourceLists}

\* C28: a pass whose directory fetch or target fetch failed has returned with no
\* removal and no addition request dispatched; a pass in which the kind check or the
\* item fetch of an auxiliary list failed skips that list only: a value that none of
\* the remaining sources holds is neither merged nor proposed as an addition, and the
\* items of the matching lists that did not fail are merged (the kind check of a list
\* fetches the kind of the target as well: when that fetch failed the log does not
\* say for which list, and the last part is not stated).
C28_FetchFailures ==
    /\ (\/ LogRec("Failed to get devices from Kandji", <<>>) \in log
        \/ LogRec("Failed to get devices from Cloudflare target list", <<>>) \in log)
          => /\ pc = "idle" /\ result = "returned"
             /\ removeReqs = <<>> /\ appendReqs = <<>>
    /\ (pc \in {"delete", "cache", "append"} \/ PassComplete)
          => /\ \A l \in FailedSourceLists :
                   \A v \in SeqToSet(lists[l].Items) \ RemainingSourceSet :
                       v \notin mergedSourceSerials /\ v \notin Proposed
             /\ LogRec("Failed to fetch type for target Cloudflare list",
                       <<config.Cloudflare.ListID>>) \notin log
                   => \A l \in MatchingLists \ FailedSourceLists :
                          SeqToSet(lists[l].Items) \subseteq mergedSourceSerials

\* A required credential or identifier is missing from the configuration.
MissingRequired(c) ==
    \/ c.Kandji.ApiURL = ""
    \/ c.Kandji.ApiToken = ""
    \/ c.Cloudflare.ApiToken = ""
    \/ c.Cloudflare.AccountID = ""
    \/ c.Cloudflare.ListID = ""

\* on_missing is set, to a value that is not one of ignore, delete, alert.
BadOnMissing(c) == c.OnMissing \notin {"", "ignore", "delete", "alert"}

\* The target list is among the source lists.
TargetAmongSources(c) == c.Cloudflare.ListID \in SeqToSet(c.Cloudflare.SourceListIDs)

\* main has ended with status 1 before Run, with its error logged and no pass run.
StartupFailed ==
    /\ run.at = "exit1"
    /\ log /= {}
    /\ run.active = 0 /\ pc = "idle" /\ result = "none"

\* C29: with a required credential or identifier missing (Kandji API URL or token,
\* Cloudflare token, account id, target list id), with on_missing set to no known
\* value, or with the target list among the source lists, main gets no further than
\* the creation of its clients and ends there with an error, no pass run; hence in
\* every pass the target list is not among the source lists.
C29_StartupRejects ==
    /\ (MissingRequired(rawConfig) \/ BadOnMissing(rawConfig) \/ TargetAmongSources(rawConfig))
          => (run.at \in {"main", "clients"} /\ run.active = 0 /\ result = "none")
             \/ StartupFailed
    /\ (InRun \/ pc /= "idle")
          => config.Cloudflare.ListID \notin SeqToSet(SourceListIDs)

\* C29 witness: the configuration lacks nothing but names the target list among its
\* source lists, and main has ended with the error.
C29_Witness ==
    /\ StartupFailed
    /\ TargetAmongSources(rawConfig)
    /\ ~MissingRequired(rawConfig)
    /\ ~BadOnMissing(rawConfig)
    /\ rawConfig.Log.Level = ""

\* C30: a negative batch size is rejected by ParseConfig as a configuration error (and
\* a batch size of zero, which means unset, does not stay zero), so that past
\* ParseConfig the batch size that Sync hands to DeleteDevices and AppendDevices is
\* positive.
C30_BatchSizePositive ==
    /\ rawConfig.Batch.Size < 0 => run.at \in {"main", "exit1"}
    /\ run.at \notin {"main", "exit1"} => config.Batch.Size > 0

\* A pass has ended: Sync has returned, early or after its summary.
PassEnded == pc = "idle" /\ result \in {"complete", "returned"}

\* C31: every pass produces exactly one cycle summary, also a pass in which nothing is
\* left to add after the deduplication and a pass in which a removal or an addition
\* request failed.
C31_OneSummaryPerPass == PassEnded => Len(summary) = 1

\* C34: the counts of the cycle summary are what the pass did: successfully_added is
\* the number of identifiers of the append requests that succeeded, and
\* deleted_devices is the number of identifiers of the target snapshot that the pass
\* removed.
C34_SummaryCountsMatch ==
    (PassEnded /\ Len(summary) = 1) =>
        /\ summary[1].successfully_added = Cardinality(target \ targetSerialSet)
        /\ summary[1].deleted_devices = Cardinality(targetSerialSet \ target)

\* What a step of the appliers writes: the auxiliary lists, their items and their
\* descriptions, stay as they are; the identifiers of a DeleteDevices all of whose
\* batches succeeded are gone from the target list, and the payload of an append that
\* succeeded is in it.
C32_Step ==
    /\ lists' = lists
    /\ (pc = "remove" /\ pc' = "add" /\ bulkResult'.Errors = <<>>)
          => target' = target \ SeqToSet(toRemove)
    /\ (pc = "add" /\ pc' = "applied" /\ result' = "complete")
          => target' = target \cup Payload

\* C32: only the target list is written: every remove PATCH and every append PATCH
\* goes to the configured target list, and none changes the items or the description
\* of an auxiliary list.
C32_OnlyTargetWritten == [][C32_Step]_vars

\* C32 witness: identifiers that an auxiliary list holds too were removed from the
\* target list, then a payload was appended to it, both with success, and the
\* auxiliary list is as it was.
C32_Witness ==
    /\ pc = "applied"
    /\ result = "complete"
    /\ Len(removeReqs) > 0 /\ bulkResult.Errors = <<>>
    /\ Len(appendReqs) > 0
    /\ "B" \in SeqToSet(toRemove)
    /\ "C" \in target
    /\ lists["L1"] = GatewayList("SERIAL", "d1", <<"A", "B">>)

\* The pages 1, 2, ..., k in order.
FirstPages(k) == [i \in 1..k |-> i]

\* C33: the page loop asks for pages 1, 2, ... in order and goes on exactly while the
\* pages are full; a call that succeeds has asked for one page more than the list has
\* full pages and returns every item of the list once, in the order of the list (an
\* empty last page when the size is a multiple of the page size); a call that fails
\* returns no items at all.
C33_PaginatesTransparently ==
    pager.state /= "none" =>
        /\ pager.pages = FirstPages(Len(pager.pages))
        /\ \A i \in 1..Len(pager.pages) :
              (i < Len(pager.pages) \/ pager.state = "running")
                  => Len(ServicePage(pager.items, i, pager.perPage)) = pager.perPage
        /\ pager.state = "ok" =>
              /\ Len(pager.pages) = (Len(pager.items) \div pager.perPage) + 1
              /\ Len(ServicePage(pager.items, Len(pager.pages), pager.perPage))
                     < pager.perPage
              /\ pager.returned = Appended(pager.method, pager.items)
              /\ \A v \in SeqToSet(pager.returned) :
                    Cardinality({i \in 1..Len(pager.returned) : pager.returned[i] = v}) = 1
        /\ pager.state = "err" => pager.returned = <<>>

\* Reached: a list of two full pages read to the end, a third and empty page asked
\* for, and its four items returned.
C33_Witness ==
    /\ pager.state = "ok"
    /\ pager.perPage = 2
    /\ Len(pager.items) = 4
    /\ pager.pages = <<1, 2, 3>>
    /\ Len(pager.returned) = 4

\* C35: once the context is done and Run is back in its select with no pass running,
\* Run starts no pass, a tick waiting in ticker.C at that moment included.
C35_NoPassAfterCancel == (Idle /\ ctxDone) => ~ENABLED ReceiveTick

\* C36: every identifier a pass proposes as an addition on account of an auxiliary
\* list of the target's kind is in the merged source set the pass computed its
\* removals from: the items used for the additions are the items the pass merged,
\* also when a fetch of the list failed during the pass.
C36_AdditionsWereMerged ==
    Planned =>
        \A l \in MatchingLists \cap DOMAIN sourceListItemsCache :
            \A v \in SeqToSet(sourceListItemsCache[l]) \cap Proposed :
                v \in mergedSourceSerials

\* C37: under on_missing = delete, an item of the target snapshot that an auxiliary list
\* of the target's kind holds is not among the removals of a pass in which the kind
\* lookup or the item fetch of that list failed.
C37_FailedListItemsKept ==
    (config.OnMissing = "delete" /\ pc \in {"delete", "cache", "append"}) =>
        \A l \in MatchingLists \cap FailedSourceLists :
            \A v \in SeqToSet(lists[l].Items) \cap targetSerialSet :
                v \notin SeqToSet(toRemove)

\* A removal batch of the pass failed as a whole.
RemovalBatchFailed == LogRec("Bulk deletion error", <<>>) \in log

\* What the steps of a pass do with the snapshot and the requests: the snapshot read
\* before the removals is not read again before the pass ends; the removal requests
\* are dispatched while no addition request of the pass has been, and none is
\* dispatched with or after the additions; a removal step in which a batch failed goes
\* on to the additions.
C38_Step ==
    /\ pc \in {"delete", "cache", "append"} => targetSerialSet' = targetSerialSet
    /\ (removeReqs' /= removeReqs /\ removeReqs' /= <<>>)
          => /\ pc = "delete"
             /\ appendReqs = <<>> /\ appendReqs' = <<>>
    /\ (appendReqs' /= appendReqs /\ appendReqs' /= <<>>)
          => /\ pc = "append"
             /\ removeReqs' = removeReqs
    /\ (pc = "delete" /\ LogRec("Bulk deletion error", <<>>) \in log' \ log)
          => /\ pc' = "cache"
             /\ toAdd' = ToAddDevices(filteredKandjiDevices, targetSerialSet)

\* The removals and the payload of the additions are both taken against the one
\* snapshot, and a payload that is not empty can be submitted, after a failed removal
\* batch as well.
C38_Plan ==
    /\ pc \in {"delete", "cache", "append"} => SeqToSet(toRemove) \subseteq targetSerialSet
    /\ pc = "append" => Payload \cap targetSerialSet = {}
    /\ (pc = "append" /\ Len(cfDevices) > 0 /\ config.Batch.Size > 0)
          => ENABLED (AppendAndFinish /\ appendReqs' /= <<>>)

\* C38: within a pass every removal batch is dispatched before the addition request,
\* removals and additions are both computed from the one target snapshot the pass
\* read (it is not read again in between), and a removal batch that fails does not
\* keep the additions of the pass from being submitted.
C38_RemovalsThenAdditions == [][C38_Step]_vars /\ []C38_Plan

\* C38 witness: a pass whose removal batch failed has submitted its additions and come
\* to its end.
C38_Witness ==
    /\ PassComplete
    /\ RemovalBatchFailed
    /\ removeReqs /= <<>>
    /\ appendReqs /= <<>>
    /\ SeqToSet(toRemove) \subseteq target

====
